---- MODULE Spec2Model ----
(***************************************************************************)
(* A model of zeroconf/_dns.py: the mDNS wire codec.                       *)
(*                                                                         *)
(*   - the record entity model (DNSEntry, DNSQuestion, DNSRecord and its   *)
(*     variants), with equality, suppression and the TTL deadlines;        *)
(*   - DNSIncoming, the parser, as pure operators over a byte sequence;    *)
(*   - DNSOutgoing, the builder: its object state is the variable out,     *)
(*     the add_* calls are actions and packets() runs as a sequence of     *)
(*     steps (one per element written, one per packet emitted) driven by   *)
(*     the variable frame, which holds packets()'s locals and position.    *)
(*                                                                         *)
(* Bytes are integers 0..255, a bytes object is a sequence of bytes, a str *)
(* is a sequence of code points.  An exception is a value of the field exc *)
(* of the object that was being worked on when it was raised.              *)
(***************************************************************************)
EXTENDS Integers, Sequences, FiniteSets, TLC

VARIABLES
    out,       \* the DNSOutgoing object (self)
    frame,     \* packets(): its position and local variables
    ret,       \* the lists packets() returned: the first one and, once it has
               \* returned again, the last one
    inc,       \* <<m>> when m is the DNSIncoming object built last, else <<>>
    dgram,     \* the datagram handed to the parser
    written,   \* write_name calls made on out: <<offset, name>> each
    reading,   \* read_name run pass by pass: its locals, position and the
               \* number of passes made
    call       \* the add_* operation called last, with its arguments (in
               \* the specification that keeps this record: AddSpec)

vars == <<out, frame, ret, inc, dgram, written, reading, call>>

(***************************************************************************)
(* const.py                                                                *)
(***************************************************************************)
\* The two size ceilings are set in const.py (1460 and 8966 there).
MAX_MSG_TYPICAL == 1460
MAX_MSG_ABSOLUTE == 8966

CLASS_IN == 1
CLASS_MASK == 32767
CLASS_UNIQUE == 32768

FLAGS_QR_MASK == 32768
FLAGS_QR_QUERY == 0
FLAGS_QR_RESPONSE == 32768
FLAGS_TC == 512

TYPE_A == 1
TYPE_CNAME == 5
TYPE_PTR == 12
TYPE_HINFO == 13
TYPE_TXT == 16
TYPE_AAAA == 28
TYPE_SRV == 33
TYPE_ANY == 255

EXPIRE_FULL_TIME_PERCENT == 100
EXPIRE_STALE_TIME_PERCENT == 50
RECENT_TIME_PERCENT == 25

(***************************************************************************)
(* Integers as bit strings, byte strings, Python slices                    *)
(***************************************************************************)
Min(a, b) == IF a <= b THEN a ELSE b

Max(a, b) == IF a >= b THEN a ELSE b

RECURSIVE BitAnd(_, _)
\* x & y for non-negative integers
BitAnd(x, y) ==
    IF x = 0 \/ y = 0 THEN 0
    ELSE (x % 2) * (y % 2) + 2 * BitAnd(x \div 2, y \div 2)

RECURSIVE BitOr(_, _)
\* x | y for non-negative integers
BitOr(x, y) ==
    IF x = 0 THEN y
    ELSE IF y = 0 THEN x
    ELSE Max(x % 2, y % 2) + 2 * BitOr(x \div 2, y \div 2)

\* data[a:b]: a slice never fails, it is cut at the end of the sequence
Slice(s, a, b) ==
    IF a >= Min(b, Len(s)) THEN <<>> ELSE SubSeq(s, a + 1, Min(b, Len(s)))

\* n copies of the byte b
Rep(b, n) == [i \in 1..n |-> b]

RECURSIVE Join(_)
\* b''.join(chunks)
Join(chunks) ==
    IF chunks = <<>> THEN <<>> ELSE Head(chunks) \o Join(Tail(chunks))

RECURSIVE SumLen(_)
\* sum(len(d) for d in chunks)
SumLen(chunks) ==
    IF chunks = <<>> THEN 0 ELSE Len(Head(chunks)) + SumLen(Tail(chunks))

\* struct.pack(b'!H', v), for v in 0 .. 65535
PackH(v) == <<v \div 256, v % 256>>

\* struct.pack(b'!I', v), for v in 0 .. 2^32 - 1
PackI(v) == <<v \div 16777216, (v \div 65536) % 256, (v \div 256) % 256, v % 256>>

\* struct.unpack(b'!H', b)[0], for a two-byte b
UnpackH(b) == b[1] * 256 + b[2]

\* struct.unpack(b'!i', b)[0], for a four-byte b: a signed integer
UnpackSignedI(b) ==
    LET top == IF b[1] >= 128 THEN b[1] - 256 ELSE b[1]
    IN  ((top * 256 + b[2]) * 256 + b[3]) * 256 + b[4]

(***************************************************************************)
(* str: lower(), split('.'), '.'.join, encode('utf-8'), decode             *)
(* Code points below 0x800 and the replacement character U+FFFD are        *)
(* handled; the names of the model use no others.                          *)
(***************************************************************************)
DOT == 46
REPLACEMENT_CHARACTER == 65533

\* str.lower(), on the ASCII letters
Lower(s) == [i \in 1..Len(s) |-> IF s[i] >= 65 /\ s[i] <= 90 THEN s[i] + 32 ELSE s[i]]

RECURSIVE Split(_)
\* name.split('.')
Split(s) ==
    IF \A i \in 1..Len(s) : s[i] # DOT THEN <<s>>
    ELSE LET i == CHOOSE k \in 1..Len(s) :
                      s[k] = DOT /\ \A j \in 1..(k - 1) : s[j] # DOT
         IN  <<SubSeq(s, 1, i - 1)>> \o Split(SubSeq(s, i + 1, Len(s)))

RECURSIVE JoinDot(_)
\* '.'.join(parts)
JoinDot(parts) ==
    IF parts = <<>> THEN <<>>
    ELSE IF Len(parts) = 1 THEN parts[1]
    ELSE parts[1] \o <<DOT>> \o JoinDot(Tail(parts))

RECURSIVE Encode(_)
\* s.encode('utf-8')
Encode(s) ==
    IF \A i \in 1..Len(s) : s[i] < 128 THEN s
    ELSE
    IF s = <<>> THEN <<>>
    ELSE LET c == Head(s)
             b == IF c < 128 THEN <<c>>
                  ELSE IF c < 2048 THEN <<192 + (c \div 64), 128 + (c % 64)>>
                  ELSE <<224 + (c \div 4096), 128 + ((c \div 64) % 64), 128 + (c % 64)>>
         IN  b \o Encode(Tail(s))

\* the number of bytes of the UTF-8 sequence that starts b, 0 if none does
Utf8Width(b, i) ==
    IF b[i] < 128 THEN 1
    ELSE IF b[i] >= 194 /\ b[i] <= 223 /\ i + 1 <= Len(b)
            /\ b[i + 1] >= 128 /\ b[i + 1] <= 191 THEN 2
    ELSE IF b[i] >= 225 /\ b[i] <= 239 /\ b[i] # 237 /\ i + 2 <= Len(b)
            /\ b[i + 1] >= 128 /\ b[i + 1] <= 191
            /\ b[i + 2] >= 128 /\ b[i + 2] <= 191 THEN 3
    ELSE 0

Utf8Point(b, i, w) ==
    IF w = 1 THEN b[i]
    ELSE IF w = 2 THEN (b[i] - 192) * 64 + (b[i + 1] - 128)
    ELSE ((b[i] - 224) * 64 + (b[i + 1] - 128)) * 64 + (b[i + 2] - 128)

RECURSIVE DecodeFrom(_, _)
\* str(b, 'utf-8', 'replace') from index i on: a byte that starts no
\* sequence becomes U+FFFD
DecodeFrom(b, i) ==
    IF i > Len(b) THEN <<>>
    ELSE LET w == Utf8Width(b, i)
         IN  IF w = 0 THEN <<REPLACEMENT_CHARACTER>> \o DecodeFrom(b, i + 1)
             ELSE <<Utf8Point(b, i, w)>> \o DecodeFrom(b, i + w)

DecodeReplace(b) ==
    IF \A i \in 1..Len(b) : b[i] < 128 THEN b ELSE DecodeFrom(b, 1)

RECURSIVE ValidUtf8From(_, _)
ValidUtf8From(b, i) ==
    IF i > Len(b) THEN TRUE
    ELSE LET w == Utf8Width(b, i)
         IN  w # 0 /\ ValidUtf8From(b, i + w)

\* b.decode('utf-8') raises UnicodeDecodeError unless this holds
ValidUtf8(b) ==
    (\A i \in 1..Len(b) : b[i] < 128) \/ ValidUtf8From(b, 1)

(***************************************************************************)
(* DNSEntry, DNSQuestion, DNSRecord and the record variants                *)
(* Every entity carries the same fields, so that any two can be compared;  *)
(* a variant leaves the rdata fields of the other variants empty.          *)
(***************************************************************************)
\* A deadline in milliseconds is kept as the pair (k, u) that stands for
\* k * 1000 + u: the deadline of a 32-bit ttl is beyond the integers of the
\* model checker, while k and u are within them.
Millis(k, u) == [k |-> k, u |-> u]

\* deadline <= now
NotAfter(deadline, now) == deadline.k <= (now - deadline.u) \div 1000

NoRdata ==
    [address |-> <<>>, cpu |-> <<>>, os |-> <<>>, alias |-> <<>>, text |-> <<>>,
     priority |-> 0, weight |-> 0, port |-> 0, server |-> <<>>,
     ttl |-> 0, created |-> 0, expiration_time |-> Millis(0, 0),
     stale_time |-> Millis(0, 0), recent_time |-> Millis(0, 0)]

\* DNSEntry.__init__ storing the class value as given, the unique bit kept
DNSEntry_class_unmasked(name, type_, class_) ==
    [key |-> Lower(name),
     name |-> name,
     type |-> type_,
     class_ |-> class_,
     unique |-> BitAnd(class_, CLASS_UNIQUE) # 0]

\* DNSEntry.__init__; class_ is the 16-bit class value as given
DNSEntry(name, type_, class_) ==
    [key |-> Lower(name),
     name |-> name,
     type |-> type_,
     class_ |-> BitAnd(class_, CLASS_MASK),
     unique |-> BitAnd(class_, CLASS_UNIQUE) # 0]

DNSQuestion(name, type_, class_) ==
    [variant |-> "DNSQuestion"] @@ DNSEntry(name, type_, class_) @@ NoRdata

\* the hundreds of ttl, rounded towards 0
hundreds(ttl) == IF ttl >= 0 THEN ttl \div 100 ELSE (ttl + 99) \div 100

\* DNSRecord.get_expiration_time: created + (percent * ttl * 10), with
\* ttl = 100 * hundreds(ttl) + the rest
get_expiration_time(created, ttl, percent) ==
    Millis(percent * hundreds(ttl), created + percent * (ttl - 100 * hundreds(ttl)) * 10)

\* DNSRecord.__init__; created is the reading of current_time_millis()
DNSRecord(name, type_, class_, ttl, created) ==
    [ttl |-> ttl,
     created |-> created,
     expiration_time |-> get_expiration_time(created, ttl, EXPIRE_FULL_TIME_PERCENT),
     stale_time |-> get_expiration_time(created, ttl, EXPIRE_STALE_TIME_PERCENT),
     recent_time |-> get_expiration_time(created, ttl, RECENT_TIME_PERCENT)]
    @@ DNSEntry(name, type_, class_)

DNSAddress(name, type_, class_, ttl, created, address) ==
    [variant |-> "DNSAddress", address |-> address]
    @@ DNSRecord(name, type_, class_, ttl, created) @@ NoRdata

DNSHinfo(name, type_, class_, ttl, created, cpu, os) ==
    [variant |-> "DNSHinfo", cpu |-> cpu, os |-> os]
    @@ DNSRecord(name, type_, class_, ttl, created) @@ NoRdata

DNSPointer(name, type_, class_, ttl, created, alias) ==
    [variant |-> "DNSPointer", alias |-> alias]
    @@ DNSRecord(name, type_, class_, ttl, created) @@ NoRdata

DNSText(name, type_, class_, ttl, created, text) ==
    [variant |-> "DNSText", text |-> text]
    @@ DNSRecord(name, type_, class_, ttl, created) @@ NoRdata

DNSService(name, type_, class_, ttl, created, priority, weight, port, server) ==
    [variant |-> "DNSService", priority |-> priority, weight |-> weight,
     port |-> port, server |-> server]
    @@ DNSRecord(name, type_, class_, ttl, created) @@ NoRdata

\* DNSEntry.__eq__ comparing the unique flag as well
DNSEntry_eq_and_unique(self, other) ==
    /\ self.key = other.key
    /\ self.type = other.type
    /\ self.class_ = other.class_
    /\ self.unique = other.unique

\* DNSEntry.__eq__
DNSEntry_eq(self, other) ==
    /\ self.key = other.key
    /\ self.type = other.type
    /\ self.class_ = other.class_

\* the __eq__ of the variant of self
DNSRecord_eq(self, other) ==
    CASE self.variant = "DNSAddress" ->
            /\ other.variant = "DNSAddress"
            /\ DNSEntry_eq(self, other)
            /\ self.address = other.address
      [] self.variant = "DNSHinfo" ->
            /\ other.variant = "DNSHinfo"
            /\ DNSEntry_eq(self, other)
            /\ self.cpu = other.cpu
            /\ self.os = other.os
      [] self.variant = "DNSPointer" ->
            /\ other.variant = "DNSPointer"
            /\ self.alias = other.alias
            /\ DNSEntry_eq(self, other)
      [] self.variant = "DNSText" ->
            /\ other.variant = "DNSText"
            /\ self.text = other.text
            /\ DNSEntry_eq(self, other)
      [] self.variant = "DNSService" ->
            /\ other.variant = "DNSService"
            /\ self.priority = other.priority
            /\ self.weight = other.weight
            /\ self.port = other.port
            /\ self.server = other.server
            /\ DNSEntry_eq(self, other)
      [] OTHER -> DNSEntry_eq(self, other)

\* DNSRecord.suppressed_by_answer; other.ttl > self.ttl / 2 is a comparison
\* of an integer with a float quotient
suppressed_by_answer(self, other) ==
    DNSRecord_eq(self, other) /\ 2 * other.ttl > self.ttl

\* DNSRecord.suppressed_by
suppressed_by(self, msg) ==
    \E i \in 1..Len(msg.answers) : suppressed_by_answer(self, msg.answers[i])

is_expired_only_after(self, now) == NotAfter(self.expiration_time, now - 1)

\* DNSRecord.is_expired
is_expired(self, now) == NotAfter(self.expiration_time, now)

\* DNSRecord.is_stale
is_stale(self, now) == NotAfter(self.stale_time, now)

\* DNSRecord.is_recent
is_recent(self, now) == ~NotAfter(self.recent_time, now)

\* DNSRecord.get_remaining_ttl, through the int() its callers apply to it:
\* max(0, (expiration_time - now) / 1000) truncated to whole seconds
get_remaining_ttl(self, now) ==
    Max(0, self.expiration_time.k + (self.expiration_time.u - now) \div 1000)

reset_ttl_keeps_deadlines(self, other) ==
    [self EXCEPT !.created = other.created, !.ttl = other.ttl]

\* DNSRecord.reset_ttl
reset_ttl(self, other) ==
    [self EXCEPT
        !.created = other.created,
        !.ttl = other.ttl,
        !.expiration_time =
            get_expiration_time(other.created, other.ttl, EXPIRE_FULL_TIME_PERCENT),
        !.stale_time =
            get_expiration_time(other.created, other.ttl, EXPIRE_STALE_TIME_PERCENT),
        !.recent_time =
            get_expiration_time(other.created, other.ttl, RECENT_TIME_PERCENT)]

\* DNSMessage.is_query
is_query(msg) == BitAnd(msg.flags, FLAGS_QR_MASK) = FLAGS_QR_QUERY

\* DNSMessage.is_response
is_response(msg) == BitAnd(msg.flags, FLAGS_QR_MASK) = FLAGS_QR_RESPONSE

(***************************************************************************)
(* DNSOutgoing: the object and its write primitives.  Each primitive takes *)
(* the object and gives the object after the call; once exc is set (an     *)
(* exception is on its way up) the calls that follow do nothing.           *)
(***************************************************************************)
NoNames == [s \in {} |-> 0]

\* DNSOutgoing.__init__
DNSOutgoing(flags, multicast, id_) ==
    [flags |-> flags,
     finished |-> FALSE,
     id |-> id_,
     multicast |-> multicast,
     packets_data |-> <<>>,
     names |-> NoNames,
     data |-> <<>>,
     size |-> 12,
     allow_long |-> TRUE,
     state |-> "init",
     questions |-> <<>>,
     answers |-> <<>>,
     authorities |-> <<>>,
     additionals |-> <<>>,
     exc |-> ""]

Raise(o, e) == IF o.exc # "" THEN o ELSE [o EXCEPT !.exc = e]

\* DNSOutgoing.reset_for_next_packet
reset_for_next_packet(o) ==
    [o EXCEPT !.names = NoNames, !.data = <<>>, !.size = 12, !.allow_long = TRUE]

\* DNSOutgoing.pack, given the packed bytes
pack(o, bytes) ==
    IF o.exc # "" THEN o
    ELSE [o EXCEPT !.data = Append(@, bytes), !.size = @ + Len(bytes)]

\* DNSOutgoing.write_byte; int2byte packs an unsigned byte
write_byte(o, value) ==
    IF value < 0 \/ value > 255 THEN Raise(o, "struct.error") ELSE pack(o, <<value>>)

\* DNSOutgoing.insert_short_at_start
insert_short_at_start(o, value) ==
    IF o.exc # "" THEN o
    ELSE IF value < 0 \/ value > 65535 THEN Raise(o, "struct.error")
    ELSE [o EXCEPT !.data = <<PackH(value)>> \o @]

\* DNSOutgoing.replace_short; index counts from 0
replace_short(o, index, value) ==
    IF o.exc # "" THEN o
    ELSE IF value < 0 \/ value > 65535 THEN Raise(o, "struct.error")
    ELSE [o EXCEPT !.data[index + 1] = PackH(value)]

\* DNSOutgoing.write_short
write_short(o, value) ==
    IF value < 0 \/ value > 65535 THEN Raise(o, "struct.error") ELSE pack(o, PackH(value))

\* DNSOutgoing.write_int
write_int(o, value) ==
    IF value < 0 \/ value \div 65536 > 65535 THEN Raise(o, "struct.error")
    ELSE pack(o, PackI(value))

\* DNSOutgoing.write_string
write_string(o, value) ==
    IF o.exc # "" THEN o
    ELSE [o EXCEPT !.data = Append(@, value), !.size = @ + Len(value)]

\* the longest label write_utf accepts
MAX_LABEL == 64

\* the longest character-string write_character_string accepts
MAX_CHARACTER_STRING == 256

\* DNSOutgoing.write_utf
write_utf(o, s) ==
    LET utfstr == Encode(s)
        length == Len(utfstr)
    IN  IF length > MAX_LABEL THEN Raise(o, "NamePartTooLongException")
        ELSE write_string(write_byte(o, length), utfstr)

\* DNSOutgoing.write_character_string
write_character_string(o, value) ==
    LET length == Len(value)
    IN  IF length > MAX_CHARACTER_STRING THEN Raise(o, "NamePartTooLongException")
        ELSE write_string(write_byte(o, length), value)

\* write_name: parts = name.split('.'), less an empty last part
name_parts(name) ==
    LET parts == Split(name)
    IN  IF parts[Len(parts)] = <<>> THEN SubSeq(parts, 1, Len(parts) - 1) ELSE parts

\* write_name: name_suffices
name_suffices(parts) ==
    [i \in 1..Len(parts) |-> JoinDot(SubSeq(parts, i, Len(parts)))]

\* write_name: the number of leading labels no entry of names covers
name_count(names, suffices) ==
    IF \E i \in 1..Len(suffices) : suffices[i] \in DOMAIN names
    THEN (CHOOSE i \in 1..Len(suffices) :
              /\ suffices[i] \in DOMAIN names
              /\ \A j \in 1..(i - 1) : suffices[j] \notin DOMAIN names) - 1
    ELSE Len(suffices)

\* write_name: the offset noted for a suffix that is written out
name_offset(size, name, suffix) == size + Len(Encode(name)) - Len(Encode(suffix)) - 1

RECURSIVE write_parts(_, _)
\* write_name: for part in parts[:count]: self.write_utf(part)
write_parts(o, parts) ==
    IF parts = <<>> THEN o ELSE write_parts(write_utf(o, Head(parts)), Tail(parts))

\* DNSOutgoing.write_name
write_name(o, name) ==
    IF o.exc # "" THEN o
    ELSE
    LET parts == name_parts(name)
        suffices == name_suffices(parts)
        count == name_count(o.names, suffices)
        noted == {suffices[i] : i \in 1..count}
        names1 == [s \in DOMAIN o.names \cup noted |->
                      IF s \in noted THEN name_offset(o.size, name, s) ELSE o.names[s]]
        o1 == write_parts([o EXCEPT !.names = names1], SubSeq(parts, 1, count))
    IN  IF count # Len(suffices)
        THEN LET index == names1[suffices[count + 1]]
             IN  write_byte(write_byte(o1, BitOr(index \div 256, 192)), index % 256)
        ELSE write_byte(o1, 0)

write_record_class_of_any_builder(o, record) ==
    IF record.unique
    THEN write_short(o, BitOr(record.class_, CLASS_UNIQUE))
    ELSE write_short(o, record.class_)

\* DNSOutgoing.write_record_class
write_record_class(o, record) ==
    IF record.unique /\ o.multicast
    THEN write_short(o, BitOr(record.class_, CLASS_UNIQUE))
    ELSE write_short(o, record.class_)

\* len_limit with the absolute ceiling for every element of a packet
len_limit_always_long(o) == MAX_MSG_ABSOLUTE

\* check_data_limit_or_rollback: len_limit
len_limit(o) == IF o.allow_long THEN MAX_MSG_ABSOLUTE ELSE MAX_MSG_TYPICAL

\* _check_data_limit_or_rollback without the comparison with the limit
check_data_limit_unchecked(o, start_data_length, start_size) ==
    [o |-> [o EXCEPT !.allow_long = FALSE], ok |-> TRUE]

\* DNSOutgoing._check_data_limit_or_rollback: the object after it and the
\* value it returns
check_data_limit_or_rollback(o, start_data_length, start_size) ==
    LET limit == len_limit(o)
        o1 == [o EXCEPT !.allow_long = FALSE]
        kept == {s \in DOMAIN o.names : ~(o.names[s] >= start_size)}
    IN  IF o1.size <= limit THEN [o |-> o1, ok |-> TRUE]
        ELSE [o |-> [o1 EXCEPT
                        !.data = SubSeq(@, 1, Min(Len(@), start_data_length)),
                        !.size = start_size,
                        !.names = [s \in kept |-> o.names[s]]],
              ok |-> FALSE]

\* write_question, write_record: the limit is checked when the write raised
\* nothing
checked(o, start_data_length, start_size) ==
    IF o.exc # "" THEN [o |-> o, ok |-> FALSE]
    ELSE check_data_limit_or_rollback(o, start_data_length, start_size)

\* DNSOutgoing.write_question
write_question(o, question) ==
    checked(write_record_class(
                write_short(write_name(o, question.name), question.type), question),
            Len(o.data), o.size)

\* the write method of the variant of record
record_write(o, record) ==
    CASE record.variant = "DNSAddress" -> write_string(o, record.address)
      [] record.variant = "DNSHinfo" ->
            write_character_string(
                write_character_string(o, Encode(record.cpu)), Encode(record.os))
      [] record.variant = "DNSPointer" -> write_name(o, record.alias)
      [] record.variant = "DNSText" -> write_string(o, record.text)
      [] record.variant = "DNSService" ->
            write_name(
                write_short(write_short(write_short(o, record.priority), record.weight),
                            record.port),
                record.server)
      [] OTHER -> Raise(o, "AbstractMethodException")

\* write_record: the length of the chunks after the one at index replaces
\* the 0 written there
patch_length(o, index) ==
    replace_short(o, index, SumLen(SubSeq(o.data, index + 2, Len(o.data))))

\* write_record: index = len(self.data), the rdlength slot, the rdata
write_rdata(o, record) == patch_length(record_write(write_short(o, 0), record), Len(o.data))

\* write_record: the ttl field
ttl_field(record, now) == IF now = 0 THEN record.ttl ELSE get_remaining_ttl(record, now)

\* DNSOutgoing.write_record
write_record(o, record, now) ==
    IF o.state = "finished" THEN [o |-> o, ok |-> FALSE]
    ELSE checked(
             write_rdata(
                 write_int(
                     write_record_class(
                         write_short(write_name(o, record.name), record.type), record),
                     ttl_field(record, now)),
                 record),
             Len(o.data), o.size)

\* DNSOutgoing._has_more_to_add
has_more_to_add(o, questions_offset, answer_offset, authority_offset, additional_offset) ==
    \/ questions_offset < Len(o.questions)
    \/ answer_offset < Len(o.answers)
    \/ authority_offset < Len(o.authorities)
    \/ additional_offset < Len(o.additionals)

(***************************************************************************)
(* DNSIncoming: the parser.  The object is a record; each read takes the   *)
(* object and gives the object after it (and the value read).  A raised    *)
(* exception sits in exc until __init__ catches it or lets it escape.      *)
(***************************************************************************)
\* DNSIncoming.unpack: the bytes it decodes, or a struct.error when the
\* slice is shorter than the format
unpack(m, length) ==
    LET bytes == Slice(m.data, m.offset, m.offset + length)
    IN  IF m.exc # "" THEN [m |-> m, info |-> <<>>]
        ELSE IF Len(bytes) < length
             THEN [m |-> [m EXCEPT !.exc = "struct.error"], info |-> <<>>]
        ELSE [m |-> [m EXCEPT !.offset = @ + length], info |-> bytes]

\* read_header: the six fields of the header, from the bytes unpacked
header_fields(u) ==
    IF u.m.exc # "" THEN u.m
    ELSE [u.m EXCEPT
            !.id = UnpackH(SubSeq(u.info, 1, 2)),
            !.flags = UnpackH(SubSeq(u.info, 3, 4)),
            !.num_questions = UnpackH(SubSeq(u.info, 5, 6)),
            !.num_answers = UnpackH(SubSeq(u.info, 7, 8)),
            !.num_authorities = UnpackH(SubSeq(u.info, 9, 10)),
            !.num_additionals = UnpackH(SubSeq(u.info, 11, 12))]

\* DNSIncoming.read_header
read_header(m) == header_fields(unpack(m, 12))

\* DNSIncoming.read_utf
read_utf(data, offset, length) == DecodeReplace(Slice(data, offset, offset + length))

\* read_name: the locals before the loop
read_name_start(offset) ==
    [off |-> offset, next_ |-> -1, first |-> offset, result |-> <<>>, status |-> "loop"]

\* read_name's pass with the test off > first in the place of off >= first
read_name_iter_follows_self(data, st) ==
    IF st.off >= Len(data) THEN [st EXCEPT !.status = "IndexError"]
    ELSE
    LET length == data[st.off + 1]
        off == st.off + 1
        t == BitAnd(length, 192)
    IN  IF length = 0 THEN [st EXCEPT !.off = off, !.status = "break"]
        ELSE IF t = 0
        THEN [st EXCEPT !.result = @ \o read_utf(data, off, length) \o <<DOT>>,
                        !.off = off + length]
        ELSE IF t = 192
        THEN IF off >= Len(data) THEN [st EXCEPT !.off = off, !.status = "IndexError"]
             ELSE LET target == (length % 64) * 256 + data[off + 1]
                      next_ == IF st.next_ < 0 THEN off + 1 ELSE st.next_
                  IN  IF target > st.first
                      THEN [st EXCEPT !.off = target, !.next_ = next_,
                                      !.status = "IncomingDecodeError"]
                      ELSE [st EXCEPT !.off = target, !.next_ = next_, !.first = target]
        ELSE [st EXCEPT !.off = off, !.status = "IncomingDecodeError"]

\* read_name: one pass through the body of the while loop
read_name_iter(data, st) ==
    IF st.off >= Len(data) THEN [st EXCEPT !.status = "IndexError"]
    ELSE
    LET length == data[st.off + 1]
        off == st.off + 1
        t == BitAnd(length, 192)
    IN  IF length = 0 THEN [st EXCEPT !.off = off, !.status = "break"]
        ELSE IF t = 0
        THEN [st EXCEPT !.result = @ \o read_utf(data, off, length) \o <<DOT>>,
                        !.off = off + length]
        ELSE IF t = 192
        THEN IF off >= Len(data) THEN [st EXCEPT !.off = off, !.status = "IndexError"]
             ELSE LET target == (length % 64) * 256 + data[off + 1]
                      next_ == IF st.next_ < 0 THEN off + 1 ELSE st.next_
                  IN  IF target >= st.first
                      THEN [st EXCEPT !.off = target, !.next_ = next_,
                                      !.status = "IncomingDecodeError"]
                      ELSE [st EXCEPT !.off = target, !.next_ = next_, !.first = target]
        ELSE [st EXCEPT !.off = off, !.status = "IncomingDecodeError"]

\* read_name is not running
NotReading == [read_name_start(0) EXCEPT !.status = "idle"] @@ [passes |-> 0]

\* an upper bound on the passes of read_name's loop over a datagram: past
\* it the loop is reported as not ending
read_name_passes(data) == (Len(data) + 1) * (Len(data) + 1)

RECURSIVE read_name_loop(_, _, _)
\* read_name: the while loop, run until it breaks or raises
read_name_loop(data, st, passes) ==
    IF st.status # "loop" THEN st
    ELSE IF passes = 0 THEN [st EXCEPT !.status = "endless"]
    ELSE read_name_loop(data, read_name_iter(data, st), passes - 1)

\* read_name: after the loop, the cursor is moved and the name returned;
\* an exception leaves the cursor where the name began
read_name_end(m, st) ==
    IF st.status # "break" THEN [m |-> [m EXCEPT !.exc = st.status], result |-> <<>>]
    ELSE [m |-> [m EXCEPT !.offset = IF st.next_ >= 0 THEN st.next_ ELSE st.off],
          result |-> st.result]

\* DNSIncoming.read_name
read_name(m) ==
    IF m.exc # "" THEN [m |-> m, result |-> <<>>]
    ELSE read_name_end(
             m, read_name_loop(m.data, read_name_start(m.offset), read_name_passes(m.data)))

\* DNSIncoming.read_string
read_string(m, length) ==
    IF m.exc # "" THEN [m |-> m, info |-> <<>>]
    ELSE [m |-> [m EXCEPT !.offset = @ + length],
          info |-> Slice(m.data, m.offset, m.offset + length)]

\* DNSIncoming.read_character_string
read_character_string(m) ==
    IF m.exc # "" THEN [m |-> m, info |-> <<>>]
    ELSE IF m.offset >= Len(m.data)
         THEN [m |-> [m EXCEPT !.exc = "IndexError"], info |-> <<>>]
    ELSE read_string([m EXCEPT !.offset = @ + 1], m.data[m.offset + 1])

\* bytes.decode('utf-8') on the character-string read
decode_strict(r) ==
    IF r.m.exc # "" THEN r
    ELSE IF ~ValidUtf8(r.info)
         THEN [m |-> [r.m EXCEPT !.exc = "UnicodeDecodeError"], info |-> <<>>]
    ELSE [m |-> r.m, info |-> DecodeReplace(r.info)]

\* read_others: read_character_string().decode('utf-8')
read_decoded_character_string(m) == decode_strict(read_character_string(m))

\* the value of unpack(b'!H')[0]
short_value(u) == [m |-> u.m, info |-> IF u.m.exc # "" THEN 0 ELSE UnpackH(u.info)]

\* DNSIncoming.read_unsigned_short
read_unsigned_short(m) == short_value(unpack(m, 2))

\* read_questions: the question is constructed and appended
append_question(u, name) ==
    IF u.m.exc # "" THEN u.m
    ELSE [u.m EXCEPT !.questions =
              Append(@, DNSQuestion(name, UnpackH(SubSeq(u.info, 1, 2)),
                                    UnpackH(SubSeq(u.info, 3, 4))))]

\* read_questions: one pass of its loop, the name being read
read_question(nm) == append_question(unpack(nm.m, 4), nm.result)

RECURSIVE read_questions(_, _)
\* DNSIncoming.read_questions: the n passes of its loop still to make
read_questions(m, n) ==
    IF n = 0 \/ m.exc # "" THEN m
    ELSE read_questions(read_question(read_name(m)), n - 1)

\* read_others: self.answers.append(rec), unless an argument of the
\* constructor raised
append_answer(m, rec) == IF m.exc # "" THEN m ELSE [m EXCEPT !.answers = Append(@, rec)]

\* read_others leaving the cursor where the rdata of a record begins
skip_rdata_not(m, length) == m

\* read_others: self.offset += length, for a type it does not know
skip_rdata(m, length) == [m EXCEPT !.offset = @ + length]

\* read_others: the dispatch on type_; domain, class_, ttl and length are
\* the fields read before the rdata
read_rdata(m, domain, type_, class_, ttl, length, created) ==
    IF type_ = TYPE_A
    THEN LET r == read_string(m, 4)
         IN  append_answer(r.m, DNSAddress(domain, type_, class_, ttl, created, r.info))
    ELSE IF type_ \in {TYPE_CNAME, TYPE_PTR}
    THEN LET r == read_name(m)
         IN  append_answer(r.m, DNSPointer(domain, type_, class_, ttl, created, r.result))
    ELSE IF type_ = TYPE_TXT
    THEN LET r == read_string(m, length)
         IN  append_answer(r.m, DNSText(domain, type_, class_, ttl, created, r.info))
    ELSE IF type_ = TYPE_SRV
    THEN LET p == read_unsigned_short(m)
             w == read_unsigned_short(p.m)
             q == read_unsigned_short(w.m)
             r == read_name(q.m)
         IN  append_answer(r.m, DNSService(domain, type_, class_, ttl, created,
                                           p.info, w.info, q.info, r.result))
    ELSE IF type_ = TYPE_HINFO
    THEN LET c == read_decoded_character_string(m)
             t == read_decoded_character_string(c.m)
         IN  append_answer(t.m, DNSHinfo(domain, type_, class_, ttl, created, c.info, t.info))
    ELSE IF type_ = TYPE_AAAA
    THEN LET r == read_string(m, 16)
         IN  append_answer(r.m, DNSAddress(domain, type_, class_, ttl, created, r.info))
    ELSE skip_rdata(m, length)

\* read_others: type_, class_, ttl, length = self.unpack(b'!HHiH'), and on
read_fields(u, domain, created) ==
    IF u.m.exc # "" THEN u.m
    ELSE read_rdata(u.m, domain,
                    UnpackH(SubSeq(u.info, 1, 2)),
                    UnpackH(SubSeq(u.info, 3, 4)),
                    UnpackSignedI(SubSeq(u.info, 5, 8)),
                    UnpackH(SubSeq(u.info, 9, 10)),
                    created)

\* read_others: one pass of its loop, the name being read; created is the
\* clock when the record is constructed
read_other(nm, created) == read_fields(unpack(nm.m, 10), nm.result, created)

RECURSIVE read_others_loop(_, _, _)
read_others_loop(m, n, created) ==
    IF n = 0 \/ m.exc # "" THEN m
    ELSE read_others_loop(read_other(read_name(m), created), n - 1, created)

\* DNSIncoming.read_others
read_others(m, created) ==
    read_others_loop(m, m.num_answers + m.num_authorities + m.num_additionals, created)

\* DNSIncoming.__init__: the exceptions its except clause names
caught_exceptions == {"IndexError", "struct.error", "IncomingDecodeError"}

\* DNSIncoming.__init__ up to its try statement
DNSIncoming_fields(data) ==
    [flags |-> 0,
     offset |-> 0,
     data |-> data,
     questions |-> <<>>,
     answers |-> <<>>,
     id |-> 0,
     num_questions |-> 0,
     num_answers |-> 0,
     num_authorities |-> 0,
     num_additionals |-> 0,
     valid |-> FALSE,
     warnings |-> 0,
     exc |-> ""]

try_end_valid_when_caught(m) ==
    IF m.exc = "" \/ m.exc \in caught_exceptions
    THEN [m EXCEPT !.valid = TRUE, !.exc = ""]
    ELSE m

\* DNSIncoming.__init__: the end of the try statement.  exc is "" when the
\* constructor returns, else the exception that leaves it
try_end(m) ==
    IF m.exc = "" THEN [m EXCEPT !.valid = TRUE]
    ELSE IF m.exc \in caught_exceptions THEN [m EXCEPT !.exc = "", !.warnings = @ + 1]
    ELSE m

\* read_questions(), called after the header is read
read_header_questions(m) == read_questions(m, m.num_questions)

\* DNSIncoming.__init__; created is the clock while the records are built
DNSIncoming(data, created) ==
    try_end(read_others(read_header_questions(read_header(DNSIncoming_fields(data))),
                        created))

(***************************************************************************)
(* The callers' inputs                                                     *)
(***************************************************************************)
\* the most elements a builder is given
MaxElems == 2

\* "local", "a", "b", "B" and a label of n letters x
Local == <<108, 111, 99, 97, 108>>

NameALocal == <<97, DOT>> \o Local \o <<DOT>>

NameBLocal == <<98, DOT>> \o Local \o <<DOT>>

NameLocal == Local \o <<DOT>>

\* "B.local": upper case, and no dot at the end
NameNoDot == <<66, DOT>> \o Local

\* a name whose first label has MAX_LABEL bytes
NameLongLabel == Rep(120, MAX_LABEL) \o <<DOT>> \o Local \o <<DOT>>

\* the clock when the callers' records were constructed, and when the
\* parsed ones are
CreatedAt == 1000

\* reference times: 0 (write the nominal ttl), one at which a record of
\* TtlShort seconds is half way, one at which it has expired
NowFresh == 61000

NowLate == 200000

TtlShort == 120

TtlLong == 4500

\* the millisecond at which a record of TtlShort seconds expires
NowExpiry == CreatedAt + 1000 * TtlShort

Nows == {0, NowFresh, NowLate}

\* payload sizes of the TXT records: two of the first spill over two
\* packets, the second needs a packet of its own, the third fits in none
TextMid == 800

TextBig == 1500

TextHuge == 9000

QuestionA == DNSQuestion(NameALocal, TYPE_PTR, CLASS_IN)

QuestionNoDot == DNSQuestion(NameNoDot, TYPE_A, CLASS_IN + CLASS_UNIQUE)

QuestionLongLabel == DNSQuestion(NameLongLabel, TYPE_ANY, CLASS_IN)

RecAddress ==
    DNSAddress(NameALocal, TYPE_A, CLASS_IN + CLASS_UNIQUE, TtlShort, CreatedAt,
               <<192, 168, 0, 1>>)

\* the same entry as RecAddress with another address
RecAddressOther ==
    DNSAddress(NameALocal, TYPE_A, CLASS_IN + CLASS_UNIQUE, TtlShort, CreatedAt,
               <<192, 168, 0, 2>>)

\* RecAddress as a peer holds it with half of its lifetime left
RecAddressHalf ==
    DNSAddress(NameALocal, TYPE_A, CLASS_IN + CLASS_UNIQUE, TtlShort \div 2, CreatedAt,
               <<192, 168, 0, 1>>)

RecPointer == DNSPointer(NameLocal, TYPE_PTR, CLASS_IN, TtlLong, CreatedAt, NameALocal)

RecService ==
    DNSService(NameALocal, TYPE_SRV, CLASS_IN, TtlShort, CreatedAt, 0, 0, 80, NameBLocal)

RecHinfo == DNSHinfo(NameALocal, TYPE_HINFO, CLASS_IN, TtlShort, CreatedAt, <<99>>, <<111>>)

RecTextMid == DNSText(NameALocal, TYPE_TXT, CLASS_IN, TtlLong, CreatedAt, Rep(65, TextMid))

RecTextBig == DNSText(NameALocal, TYPE_TXT, CLASS_IN, TtlLong, CreatedAt, Rep(65, TextBig))

RecTextHuge == DNSText(NameALocal, TYPE_TXT, CLASS_IN, TtlLong, CreatedAt, Rep(65, TextHuge))

\* Python's None where a record is expected
None == [variant |-> "None"] @@ DNSEntry(<<>>, 0, 0) @@ NoRdata

Questions == {QuestionA, QuestionNoDot, QuestionLongLabel}

AnswerRecords ==
    {RecAddress, RecPointer, RecService, RecHinfo, RecTextMid, RecTextBig, RecTextHuge}

\* the (record, now) pairs add_answer_at_time is called with
AnswersAtTime ==
    {<<r, 0>> : r \in AnswerRecords}
        \cup {<<None, 0>>, <<None, NowFresh>>, <<RecAddress, NowFresh>>,
               <<RecAddress, NowExpiry - 1>>, <<RecAddress, NowExpiry>>,
               <<RecAddress, NowLate>>, <<RecPointer, NowLate>>}

AuthorityRecords == {RecPointer}

AdditionalRecords == {RecAddress, RecTextMid}

\* a received message whose answers are given
Message(answers) == [DNSIncoming_fields(<<>>) EXCEPT !.answers = answers, !.valid = TRUE]

Messages ==
    {Message(<<>>), Message(<<RecAddress>>), Message(<<RecAddressHalf>>),
     Message(<<RecAddressOther>>), Message(<<RecPointer, RecAddress>>)}

\* the cache is a list of records
Caches == {<<>>, <<RecAddress>>, <<RecAddressOther, RecAddress>>}

\* the caches in which a lookup finds RecAddress or nothing
CachesOfOne == {<<>>, <<RecAddress>>, <<RecPointer, RecAddress>>}

\* DNSCache.get_all_by_details
get_all_by_details(cache, name, type_, class_) ==
    SelectSeq(cache, LAMBDA r : r.key = Lower(name) /\ r.type = type_ /\ r.class_ = class_)

\* DNSCache.get_by_details
get_by_details(cache, name, type_, class_) ==
    LET all == get_all_by_details(cache, name, type_, class_)
    IN  IF all = <<>> THEN None ELSE all[1]

\* flags of a query and of a response with the AA bit (0x0400), as a
\* responder sends it; a transaction id
FlagsOfCallers == {FLAGS_QR_QUERY, FLAGS_QR_RESPONSE + 1024}

TransactionId == 4660

(***************************************************************************)
(* The builder's operations.  The codec is single-threaded: no add_* call  *)
(* runs while packets() is under way (frame.pc # "idle").                  *)
(***************************************************************************)
Idle ==
    [pc |-> "idle",
     questions_offset |-> 0, answer_offset |-> 0,
     authority_offset |-> 0, additional_offset |-> 0,
     questions_written |-> 0, answers_written |-> 0,
     authorities_written |-> 0, additionals_written |-> 0]

NoArgs ==
    [op |-> "", record |-> None, now |-> 0, inp |-> Message(<<>>), cache |-> <<>>,
     before |-> DNSOutgoing(0, TRUE, 0)]

\* the value of call where the calls are not recorded
Unrecorded == [NoArgs EXCEPT !.op = "unrecorded"]

\* the call c is recorded, with the builder it is made on
Recorded(c) == call' = IF call = Unrecorded THEN call ELSE [c EXCEPT !.before = out]

Elements(o) == Len(o.questions) + Len(o.answers) + Len(o.authorities) + Len(o.additionals)

\* The model follows a builder until a peer has parsed one of its packets.
CanCall == frame.pc = "idle" /\ out.exc = "" /\ inc = <<>>

CanAdd == CanCall /\ Elements(out) < MaxElems

\* DNSOutgoing.add_question
add_question(o, record) == [o EXCEPT !.questions = Append(@, record)]

\* DNSOutgoing.add_answer_at_time
add_answer_at_time(o, record, now) ==
    IF record # None /\ (now = 0 \/ ~is_expired(record, now))
    THEN [o EXCEPT !.answers = Append(@, <<record, now>>)]
    ELSE o

\* DNSOutgoing.add_answer
add_answer(o, inp, record) ==
    IF ~suppressed_by(record, inp) THEN add_answer_at_time(o, record, 0) ELSE o

\* DNSOutgoing.add_authorative_answer
add_authorative_answer(o, record) == [o EXCEPT !.authorities = Append(@, record)]

\* DNSOutgoing.add_additional_answer
add_additional_answer(o, record) == [o EXCEPT !.additionals = Append(@, record)]

\* DNSOutgoing.add_question_or_one_cache
add_question_or_one_cache(o, cache, now, name, type_, class_) ==
    LET cached_entry == get_by_details(cache, name, type_, class_)
    IN  IF cached_entry = None THEN add_question(o, DNSQuestion(name, type_, class_))
        ELSE add_answer_at_time(o, cached_entry, now)

RECURSIVE add_all_at_time(_, _, _)
\* add_question_or_all_cache: its for loop
add_all_at_time(o, cached_entries, now) ==
    IF cached_entries = <<>> THEN o
    ELSE add_all_at_time(add_answer_at_time(o, Head(cached_entries), now),
                         Tail(cached_entries), now)

\* DNSOutgoing.add_question_or_all_cache
add_question_or_all_cache(o, cache, now, name, type_, class_) ==
    LET cached_entries == get_all_by_details(cache, name, type_, class_)
    IN  IF cached_entries = <<>> THEN add_question(o, DNSQuestion(name, type_, class_))
        ELSE add_all_at_time(o, cached_entries, now)

Called(o) ==
    /\ out' = o
    /\ UNCHANGED <<frame, ret, inc, dgram, written, reading>>

AddQuestion(questions) ==
    \E q \in questions :
        /\ CanAdd
        /\ Recorded([NoArgs EXCEPT !.op = "add_question", !.record = q])
        /\ Called(add_question(out, q))

AddAnswer ==
    \E inp \in Messages, r \in {RecAddress, RecPointer} :
        /\ CanAdd
        /\ Recorded([NoArgs EXCEPT !.op = "add_answer", !.record = r, !.inp = inp])
        /\ Called(add_answer(out, inp, r))

AddAnswerAtTime(answers) ==
    \E a \in answers :
        /\ CanAdd
        /\ Recorded([NoArgs EXCEPT !.op = "add_answer_at_time",
                                   !.record = a[1], !.now = a[2]])
        /\ Called(add_answer_at_time(out, a[1], a[2]))

AddAuthorativeAnswer ==
    \E r \in AuthorityRecords :
        /\ CanAdd
        /\ Recorded([NoArgs EXCEPT !.op = "add_authorative_answer", !.record = r])
        /\ Called(add_authorative_answer(out, r))

AddAdditionalAnswer ==
    \E r \in AdditionalRecords :
        /\ CanAdd
        /\ Recorded([NoArgs EXCEPT !.op = "add_additional_answer", !.record = r])
        /\ Called(add_additional_answer(out, r))

\* the entries the callers look up in the cache: (name, type, class)
Lookups == {QuestionA, DNSQuestion(NameALocal, TYPE_A, CLASS_IN)}

AddQuestionOrOneCache(caches) ==
    \E cache \in caches, now \in Nows, q \in Lookups :
        /\ CanAdd
        /\ Recorded([NoArgs EXCEPT !.op = "add_question_or_one_cache", !.record = q,
                                  !.now = now, !.cache = cache])
        /\ Called(add_question_or_one_cache(out, cache, now, q.name, q.type, q.class_))

AddQuestionOrAllCache(caches) ==
    \E cache \in caches, now \in Nows, q \in Lookups :
        /\ CanAdd
        /\ Elements(out) + Max(1, Len(cache)) <= MaxElems
        /\ Recorded([NoArgs EXCEPT !.op = "add_question_or_all_cache", !.record = q,
                                  !.now = now, !.cache = cache])
        /\ Called(add_question_or_all_cache(out, cache, now, q.name, q.type, q.class_))

(***************************************************************************)
(* packets()                                                               *)
(***************************************************************************)
\* packets without the test of the state
packets_never_returns_at_once(o) == FALSE

\* packets: the test it starts with
packets_returns_at_once(o) == o.state = "finished"

\* ret once packets() has returned the list v
Returned(v) == IF ret = <<>> THEN <<v>> ELSE <<ret[1], v>>

\* packets() is called: it returns the stored list or enters its loop
PacketsCall ==
    /\ CanCall
    /\ IF packets_returns_at_once(out)
       THEN /\ ret' = Returned(out.packets_data)
            /\ UNCHANGED <<out, frame>>
       ELSE /\ frame' = [Idle EXCEPT !.pc = "questions"]
            /\ UNCHANGED <<out, ret>>
    /\ UNCHANGED <<inc, dgram, written, reading, call>>

\* what a step of a _write_*_from_offset loop leaves: the element is written
\* and counted, or rolled back (the loop breaks), or an exception goes up
AfterWrite(r, counter, next_pc) ==
    /\ out' = r.o
    /\ frame' = IF r.o.exc # "" THEN [frame EXCEPT !.pc = "raised"]
                ELSE IF r.ok THEN [frame EXCEPT ![counter] = @ + 1]
                ELSE [frame EXCEPT !.pc = next_pc]
    /\ UNCHANGED <<ret, inc, dgram, written, reading, call>>

LoopOver(next_pc) ==
    /\ frame' = [frame EXCEPT !.pc = next_pc]
    /\ UNCHANGED <<out, ret, inc, dgram, written, reading, call>>

\* _write_questions_from_offset, one pass of its loop
WriteQuestion ==
    /\ frame.pc = "questions"
    /\ LET i == frame.questions_offset + frame.questions_written
       IN  IF i < Len(out.questions)
           THEN AfterWrite(write_question(out, out.questions[i + 1]),
                           "questions_written", "answers")
           ELSE LoopOver("answers")

\* _write_answers_from_offset looping over self.answers, not over
\* self.answers[answer_offset:]
WriteAnswerFromStart ==
    /\ frame.pc = "answers"
    /\ LET i == frame.answers_written
       IN  IF i < Len(out.answers) /\ frame.answer_offset + i < Len(out.answers)
           THEN AfterWrite(write_record(out, out.answers[i + 1][1], out.answers[i + 1][2]),
                           "answers_written", "authorities")
           ELSE LoopOver("authorities")

\* _write_answers_from_offset, one pass of its loop
WriteAnswer ==
    /\ frame.pc = "answers"
    /\ LET i == frame.answer_offset + frame.answers_written
       IN  IF i < Len(out.answers)
           THEN AfterWrite(write_record(out, out.answers[i + 1][1], out.answers[i + 1][2]),
                           "answers_written", "authorities")
           ELSE LoopOver("authorities")

\* _write_authorities_from_offset, one pass of its loop
WriteAuthority ==
    /\ frame.pc = "authorities"
    /\ LET i == frame.authority_offset + frame.authorities_written
       IN  IF i < Len(out.authorities)
           THEN AfterWrite(write_record(out, out.authorities[i + 1], 0),
                           "authorities_written", "additionals")
           ELSE LoopOver("additionals")

\* _write_additionals_from_offset, one pass of its loop
WriteAdditional ==
    /\ frame.pc = "additionals"
    /\ LET i == frame.additional_offset + frame.additionals_written
       IN  IF i < Len(out.additionals)
           THEN AfterWrite(write_record(out, out.additionals[i + 1], 0),
                           "additionals_written", "header")
           ELSE LoopOver("header")

\* packets setting TC whenever elements remain, in responses too
packet_flags_of_any(o, f) ==
    IF has_more_to_add(o, f.questions_offset, f.answer_offset,
                       f.authority_offset, f.additional_offset)
    THEN BitOr(o.flags, FLAGS_TC)
    ELSE o.flags

\* packets: the flags field of the packet being closed, f being the frame
\* with its offsets advanced
packet_flags(o, f) ==
    IF is_query(o) /\ has_more_to_add(o, f.questions_offset, f.answer_offset,
                                      f.authority_offset, f.additional_offset)
    THEN BitOr(o.flags, FLAGS_TC)
    ELSE o.flags

\* packets: the id of the builder put in front of every packet
packet_id_of_builder(o) == o.id

\* packets: the transaction id of a packet
packet_id(o) == IF o.multicast THEN 0 ELSE o.id

\* packets without the break on a pass that wrote nothing
no_progress_never(o, f) == FALSE

\* packets: the loop ends on a pass that wrote nothing while elements exist
no_progress(o, f) ==
    /\ f.questions_written + f.answers_written
           + f.authorities_written + f.additionals_written = 0
    /\ Len(o.questions) + Len(o.answers) + Len(o.authorities) + Len(o.additionals) > 0

\* packets advancing the answer offset by one more than the pass wrote
advanced_past(f) ==
    [f EXCEPT
        !.questions_offset = @ + f.questions_written,
        !.answer_offset = @ + f.answers_written + 1,
        !.authority_offset = @ + f.authorities_written,
        !.additional_offset = @ + f.additionals_written]

\* packets: the offsets advanced by what the pass wrote
advanced(f) ==
    [f EXCEPT
        !.questions_offset = @ + f.questions_written,
        !.answer_offset = @ + f.answers_written,
        !.authority_offset = @ + f.authorities_written,
        !.additional_offset = @ + f.additionals_written]

\* packets inserting the count of the answers before that of the authorities
packet_header_counts_swapped(o, f) ==
    insert_short_at_start(
        insert_short_at_start(
            insert_short_at_start(
                insert_short_at_start(
                    insert_short_at_start(
                        insert_short_at_start(o, f.additionals_written),
                        f.answers_written),
                    f.authorities_written),
                f.questions_written),
            packet_flags(o, advanced(f))),
        packet_id(o))

\* packets: the six shorts put in front of the packet, last field first
packet_header(o, f) ==
    insert_short_at_start(
        insert_short_at_start(
            insert_short_at_start(
                insert_short_at_start(
                    insert_short_at_start(
                        insert_short_at_start(o, f.additionals_written),
                        f.authorities_written),
                    f.answers_written),
                f.questions_written),
            packet_flags(o, advanced(f))),
        packet_id(o))

\* packets: self.packets_data.append(b''.join(self.data)) and the reset
packet_stored(o) ==
    reset_for_next_packet([o EXCEPT !.packets_data = Append(@, Join(o.data))])

\* packets: whether the loop makes another pass, f being advanced
loops_again(o, f) ==
    /\ ~no_progress(o, f)
    /\ has_more_to_add(o, f.questions_offset, f.answer_offset,
                       f.authority_offset, f.additional_offset)

\* packets: the state set when the loop is left
packets_finished(o) == [o EXCEPT !.state = "finished"]

\* the builder, the frame and the returned value after the header is in
\* place (o), f being the frame advanced
Closed(o, f) ==
    IF o.exc # ""
    THEN /\ out' = o
         /\ frame' = [frame EXCEPT !.pc = "raised"]
         /\ UNCHANGED ret
    ELSE IF loops_again(o, f)
    THEN /\ out' = packet_stored(o)
         /\ frame' = [f EXCEPT !.pc = "questions",
                               !.questions_written = 0, !.answers_written = 0,
                               !.authorities_written = 0, !.additionals_written = 0]
         /\ UNCHANGED ret
    ELSE /\ out' = packets_finished(packet_stored(o))
         /\ frame' = Idle
         /\ ret' = Returned(out'.packets_data)

\* packets: the rest of a pass of its loop, from the header to the loop
\* test, and the return when the loop is left
ClosePacket ==
    /\ frame.pc = "header"
    /\ Closed(packet_header(out, frame), advanced(frame))
    /\ UNCHANGED <<inc, dgram, written, reading, call>>

\* a peer receives one of the packets and parses it
Receive ==
    \E i \in 1..Len(out.packets_data) :
        /\ frame.pc = "idle"
        /\ out.state = "finished"
        /\ dgram' = out.packets_data[i]
        /\ inc' = <<DNSIncoming(out.packets_data[i], CreatedAt)>>
        /\ UNCHANGED <<out, frame, ret, written, reading, call>>

Init ==
    /\ out \in {DNSOutgoing(f, m, TransactionId) : f \in FlagsOfCallers, m \in BOOLEAN}
    /\ frame = Idle
    /\ ret = <<>>
    /\ inc = <<>>
    /\ dgram = <<>>
    /\ written = <<>>
    /\ reading = NotReading
    /\ call = Unrecorded

Next ==
    \/ AddQuestion(Questions)
    \/ AddAnswer
    \/ AddAnswerAtTime(AnswersAtTime)
    \/ AddAuthorativeAnswer
    \/ AddAdditionalAnswer
    \/ AddQuestionOrOneCache(CachesOfOne)
    \/ AddQuestionOrAllCache(CachesOfOne)
    \/ PacketsCall
    \/ WriteQuestion
    \/ WriteAnswer
    \/ WriteAuthority
    \/ WriteAdditional
    \/ ClosePacket
    \/ Receive

Spec == Init /\ [][Next]_vars

(***************************************************************************)
(* The add_* operations alone, each call recorded with its arguments and   *)
(* the builder it was made on                                              *)
(***************************************************************************)
AddInit ==
    /\ out \in {DNSOutgoing(f, m, TransactionId) : f \in FlagsOfCallers, m \in BOOLEAN}
    /\ frame = Idle
    /\ ret = <<>>
    /\ inc = <<>>
    /\ dgram = <<>>
    /\ written = <<>>
    /\ reading = NotReading
    /\ call = NoArgs

AddNext ==
    \/ AddQuestion(Questions)
    \/ AddAnswer
    \/ AddAnswerAtTime(AnswersAtTime)
    \/ AddAuthorativeAnswer
    \/ AddAdditionalAnswer
    \/ AddQuestionOrOneCache(Caches)
    \/ AddQuestionOrAllCache(Caches)

AddSpec == AddInit /\ [][AddNext]_vars

(***************************************************************************)
(* Properties of packets()                                                 *)
(***************************************************************************)
\* the i-th 16-bit field of the header of the packet p, i in 1..6
header_short(p, i) == UnpackH(SubSeq(p, 2 * i - 1, 2 * i))

\* the number of elements the header of p announces
header_elements(p) ==
    header_short(p, 3) + header_short(p, 4) + header_short(p, 5) + header_short(p, 6)

\* the TC bit of the flags field of p
has_tc(p) == BitAnd(header_short(p, 2), FLAGS_TC) # 0

\* C1: every byte string packets() returns is at most MAX_MSG_ABSOLUTE
\* bytes long, its 12-byte header included.
PacketsWithinAbsolute ==
    \A i \in 1..Len(ret) : \A k \in 1..Len(ret[i]) :
        Len(ret[i][k]) <= MAX_MSG_ABSOLUTE

\* packets() returned a packet longer than MAX_MSG_TYPICAL for a builder
\* that also holds a record too long for any packet
PacketsWithinAbsoluteWitness ==
    /\ ret # <<>>
    /\ \E k \in 1..Len(ret[1]) : Len(ret[1][k]) > MAX_MSG_TYPICAL
    /\ \E j \in 1..Len(out.answers) : out.answers[j][1] = RecTextHuge

\* C2: once packets() has returned, the builder is in state finished from
\* then on and every later call of packets() returns the list the first
\* call returned, whatever add_* calls are made in between.
FinalizationIdempotent ==
    ret # <<>> =>
        /\ out.state = "finished"
        /\ \A i \in 1..Len(ret) : ret[i] = ret[1]

\* packets() returned twice, and a question was added after its first
\* return (which was the packet of an empty builder: a header alone)
FinalizationIdempotentWitness ==
    /\ Len(ret) = 2
    /\ Len(ret[1]) = 1
    /\ Len(ret[1][1]) = 12
    /\ out.questions # <<>>

\* C3: in a query whose packets() returns more than one packet, every
\* packet but the last has the TC bit set and the last has it clear.
TruncationFlagOnAllButLast ==
    \A i \in 1..Len(ret) :
        (is_query(out) /\ Len(ret[i]) > 1) =>
            \A k \in 1..Len(ret[i]) : has_tc(ret[i][k]) <=> (k < Len(ret[i]))

\* C10: a returned packet longer than MAX_MSG_TYPICAL announces exactly
\* one element in its four section counts; a packet of two or more elements
\* is at most MAX_MSG_TYPICAL bytes long.
LongPacketHoldsOneElement ==
    \A i \in 1..Len(ret) : \A k \in 1..Len(ret[i]) :
        /\ Len(ret[i][k]) > MAX_MSG_TYPICAL => header_elements(ret[i][k]) = 1
        /\ header_elements(ret[i][k]) >= 2 => Len(ret[i][k]) <= MAX_MSG_TYPICAL

\* packets() returned a packet longer than MAX_MSG_TYPICAL and another
\* packet for the element that did not fit behind the long one
LongPacketHoldsOneElementWitness ==
    /\ ret # <<>>
    /\ \E k \in 1..Len(ret[1]) : Len(ret[1][k]) > MAX_MSG_TYPICAL
    /\ \E k \in 1..Len(ret[1]) :
           Len(ret[1][k]) <= MAX_MSG_TYPICAL /\ header_elements(ret[1][k]) >= 1

(***************************************************************************)
(* Round trip through one packet                                           *)
(***************************************************************************)
\* the builder finished with one packet of at most MAX_MSG_TYPICAL bytes
\* that holds every element it was given, and a peer has parsed the packet
single_packet_parsed ==
    /\ inc # <<>>
    /\ Len(out.packets_data) = 1
    /\ Len(dgram) <= MAX_MSG_TYPICAL
    /\ header_short(dgram, 3) = Len(out.questions)
    /\ header_short(dgram, 4) = Len(out.answers)
    /\ header_short(dgram, 5) = Len(out.authorities)
    /\ header_short(dgram, 6) = Len(out.additionals)

\* the same name, type, class and unique flag
same_entry(a, b) ==
    /\ a.name = b.name
    /\ a.type = b.type
    /\ a.class_ = b.class_
    /\ a.unique = b.unique

\* the same entry fields, the same variant and the same rdata
same_record(a, b) == same_entry(a, b) /\ DNSRecord_eq(a, b)

\* the records of the builder in the order of the sections
records_of(o) == [i \in 1..Len(o.answers) |-> o.answers[i][1]] \o o.authorities \o o.additionals

\* C5: the parse of the only packet of a message of at most
\* MAX_MSG_TYPICAL bytes is valid, its questions are the message's in
\* order and its answers are the message's answers, authorities and
\* additionals in order (name, type, class, unique flag and rdata).
SinglePacketRoundTrip ==
    single_packet_parsed =>
        /\ inc[1].valid
        /\ Len(inc[1].questions) = Len(out.questions)
        /\ \A i \in 1..Len(inc[1].questions) :
               i <= Len(out.questions) => same_entry(inc[1].questions[i], out.questions[i])
        /\ Len(inc[1].answers) = Len(records_of(out))
        /\ \A i \in 1..Len(inc[1].answers) :
               i <= Len(records_of(out)) => same_record(inc[1].answers[i], records_of(out)[i])

(***************************************************************************)
(* Properties of the add_* operations (specification AddSpec: call holds   *)
(* the operation called last, its arguments and the builder before it)     *)
(***************************************************************************)
\* inp.answers holds an entry with the (key, type, class) of r whose TTL
\* exceeds r.ttl / 2
known_answer(r, inp) ==
    \E i \in 1..Len(inp.answers) :
        /\ inp.answers[i].key = r.key
        /\ inp.answers[i].type = r.type
        /\ inp.answers[i].class_ = r.class_
        /\ 2 * inp.answers[i].ttl > r.ttl

\* C8: add_answer(inp, r) leaves answers unchanged if and only if
\* inp.answers holds an entry with the (key, type, class) of r whose TTL
\* exceeds r.ttl / 2; in every other case it appends (r, 0).
KnownAnswerSuppression ==
    call.op = "add_answer" =>
        /\ (out.answers = call.before.answers) <=> known_answer(call.record, call.inp)
        /\ ~known_answer(call.record, call.inp) =>
               out.answers = Append(call.before.answers, <<call.record, 0>>)

\* the lookup add_question_or_one_cache made found nothing
cache_miss(c) == get_by_details(c.cache, c.record.name, c.record.type, c.record.class_) = None

\* C9: a call of add_question_or_one_cache adds one question and no answer
\* (cache miss) or no question and one answer (cache hit), for every cache
\* and every now.
CacheElision ==
    call.op = "add_question_or_one_cache" =>
        \/ /\ cache_miss(call)
           /\ Len(out.questions) = Len(call.before.questions) + 1
           /\ out.answers = call.before.answers
        \/ /\ ~cache_miss(call)
           /\ out.questions = call.before.questions
           /\ Len(out.answers) = Len(call.before.answers) + 1

\* the deadline, in milliseconds, lies after now
lies_after(deadline, now) == 1000 * deadline.k + deadline.u > now

\* add_answer_at_time(record, now) has to append
to_append(record, now) ==
    record # None /\ (now = 0 \/ lies_after(record.expiration_time, now))

\* C25: add_answer_at_time(record, now) appends (record, now) to answers
\* exactly when record is not None and now is 0 or the expiration time of
\* record lies after now, and leaves the other sequences as they were; every
\* answer stored with a now other than 0 expires after that now.
AnswerAtTime ==
    /\ call.op = "add_answer_at_time" =>
           /\ out.answers = IF to_append(call.record, call.now)
                            THEN Append(call.before.answers, <<call.record, call.now>>)
                            ELSE call.before.answers
           /\ out.questions = call.before.questions
           /\ out.authorities = call.before.authorities
           /\ out.additionals = call.before.additionals
    /\ \A i \in 1..Len(out.answers) :
           out.answers[i][2] # 0 =>
               lies_after(out.answers[i][1].expiration_time, out.answers[i][2])

\* a record is refused at the millisecond of its expiry, after one was
\* stored a millisecond before its own
AnswerAtTimeWitness ==
    /\ call.op = "add_answer_at_time"
    /\ call.record = RecAddress
    /\ call.now = NowExpiry
    /\ out.answers = call.before.answers
    /\ out.answers = <<<<RecAddress, NowExpiry - 1>>>>

(***************************************************************************)
(* Names: write_name called on a builder, then the packet with the names   *)
(* in it (specification NameSpec)                                          *)
(***************************************************************************)
\* the most names written into one packet
MaxNames == 3

\* a name whose first label is one byte longer than write_utf accepts
NameTooLongLabel == Rep(120, MAX_LABEL + 1) \o <<DOT>> \o Local \o <<DOT>>

Names == {NameALocal, NameBLocal, NameLocal, NameNoDot, NameLongLabel, NameTooLongLabel}

\* write_name is called; the offset the name begins at is noted with it
WriteName ==
    \E name \in Names :
        /\ out.exc = ""
        /\ dgram = <<>>
        /\ Len(written) < MaxNames
        /\ out' = write_name(out, name)
        /\ written' = IF out'.exc = "" THEN Append(written, <<out.size, name>>)
                      ELSE written
        /\ UNCHANGED <<frame, ret, inc, dgram, reading, call>>

\* packets() on a builder without elements puts the header in front of
\* what was written: the finished packet
NamesPacket ==
    /\ out.exc = ""
    /\ dgram = <<>>
    /\ written # <<>>
    /\ dgram' = Join(packet_header(out, Idle).data)
    /\ UNCHANGED <<out, frame, ret, inc, written, reading, call>>

NameInit ==
    /\ out \in {DNSOutgoing(FLAGS_QR_QUERY, m, 0) : m \in BOOLEAN}
    /\ frame = Idle
    /\ ret = <<>>
    /\ inc = <<>>
    /\ dgram = <<>>
    /\ written = <<>>
    /\ reading = NotReading
    /\ call = Unrecorded

NameNext ==
    \/ WriteName
    \/ NamesPacket

NameSpec == NameInit /\ [][NameNext]_vars

\* read_name at the offset given of the packet data
name_read_back(data, offset) ==
    read_name([DNSIncoming_fields(data) EXCEPT !.offset = offset])

\* C4: every name written with write_name into one packet is read back
\* from the finished packet by read_name, at the offset it was written at,
\* as the string that was written.
NameRoundTrip ==
    dgram # <<>> =>
        \A i \in 1..Len(written) :
            /\ name_read_back(dgram, written[i][1]).m.exc = ""
            /\ name_read_back(dgram, written[i][1]).result = written[i][2]

\* the bytes of the packet under assembly from the offset given on, the
\* 12 bytes of the header counted (offsets below 12 lie in the header)
packet_bytes_from(o, offset) ==
    IF offset < 12 THEN <<>>
    ELSE SubSeq(Join(o.data), offset - 12 + 1, Len(Join(o.data)))

\* the length byte and the bytes of the first label of the suffix
first_label_bytes(suffix) ==
    <<Len(Encode(name_parts(suffix)[1]))>> \o Encode(name_parts(suffix)[1])

\* C18: while names are written into a packet every entry (suffix -> offset)
\* of the compression dictionary gives the offset in the packet, header
\* included, where the length byte of the first label of the suffix stands,
\* followed by that label.
DictionaryOffsets ==
    out.exc = "" =>
        \A suffix \in DOMAIN out.names :
            LET label == first_label_bytes(suffix)
                from == packet_bytes_from(out, out.names[suffix])
            IN  /\ Len(from) >= Len(label)
                /\ SubSeq(from, 1, Len(label)) = label

RECURSIVE pointer_target(_, _)
\* the target of the pointer that ends the name at offset of data, or -1
\* when the name ends with the byte 0 (or runs out of data)
pointer_target(data, offset) ==
    IF offset + 1 > Len(data) THEN -1
    ELSE IF data[offset + 1] = 0 THEN -1
    ELSE IF data[offset + 1] >= 192
    THEN IF offset + 2 > Len(data) THEN -1
         ELSE (data[offset + 1] % 64) * 256 + data[offset + 2]
    ELSE pointer_target(data, offset + 1 + data[offset + 1])

\* C23: every compression pointer of a packet whose assembly began with an
\* empty buffer, size 12 and an empty dictionary targets an offset of that
\* packet that is at least 12 and lower than the offset at which the name
\* that holds the pointer begins.
PointersIntoPacket ==
    dgram # <<>> =>
        \A i \in 1..Len(written) :
            pointer_target(dgram, written[i][1]) # -1 =>
                /\ pointer_target(dgram, written[i][1]) >= 12
                /\ pointer_target(dgram, written[i][1]) < written[i][1]

(***************************************************************************)
(* The parser on datagrams put together from pieces (specification        *)
(* ParseSpec).  read_name on the first name of the datagram, which follows *)
(* the header, is run pass by pass; DNSIncoming() is run as a whole.       *)
(***************************************************************************)
\* the most pieces that follow the header of a datagram
MaxChunks == 3

\* headers announcing one question, or one answer
Headers ==
    {PackH(0) \o PackH(FLAGS_QR_QUERY) \o PackH(1) \o PackH(0) \o PackH(0) \o PackH(0),
     PackH(0) \o PackH(FLAGS_QR_RESPONSE) \o PackH(0) \o PackH(1) \o PackH(0) \o PackH(0)}

\* the end of a name; a label "a"; pointers to offset 0 (into the header),
\* to offset 12 (the first byte after the header) and to offset 14; a
\* length byte with the bits 01; the type and class of a question; an
\* HINFO record after its name, with cpu "c" or the byte FF and os "c"
Chunks ==
    {<<0>>, <<1, 97>>, <<192, 0>>, <<192, 12>>, <<192, 14>>, <<64>>,
     PackH(TYPE_PTR) \o PackH(CLASS_IN),
     PackH(TYPE_HINFO) \o PackH(CLASS_IN) \o PackI(TtlShort) \o PackH(4) \o <<1, 99, 1, 99>>,
     PackH(TYPE_HINFO) \o PackH(CLASS_IN) \o PackI(TtlShort) \o PackH(4) \o <<1, 255, 1, 99>>}

Datagrams ==
    {h \o Join(c) : h \in Headers, c \in UNION {[1..n -> Chunks] : n \in 0..MaxChunks}}

\* read_name is entered for the first name: self.offset is 12
StartReadName ==
    /\ reading.status = "idle"
    /\ reading' = read_name_start(12) @@ [passes |-> 0]
    /\ UNCHANGED <<out, frame, ret, inc, dgram, written, call>>

\* one pass of read_name's loop
ReadNamePass ==
    /\ reading.status = "loop"
    /\ reading.passes <= read_name_passes(dgram)
    /\ reading' = [read_name_iter(dgram, reading) EXCEPT !.passes = @ + 1]
    /\ UNCHANGED <<out, frame, ret, inc, dgram, written, call>>

\* DNSIncoming(dgram)
Parse ==
    /\ reading.status \notin {"idle", "loop"}
    /\ inc = <<>>
    /\ inc' = <<DNSIncoming(dgram, CreatedAt)>>
    /\ UNCHANGED <<out, frame, ret, dgram, written, reading, call>>

ParseInit ==
    /\ out = DNSOutgoing(FLAGS_QR_QUERY, TRUE, 0)
    /\ frame = Idle
    /\ ret = <<>>
    /\ inc = <<>>
    /\ dgram \in Datagrams
    /\ written = <<>>
    /\ reading = NotReading
    /\ call = Unrecorded

ParseNext ==
    \/ StartReadName
    \/ ReadNamePass
    \/ Parse

ParseSpec == ParseInit /\ [][ParseNext]_vars

\* the loop of read_name is at a pointer whose target is not before first
pointer_not_before_first ==
    /\ reading.status = "loop"
    /\ reading.off + 2 <= Len(dgram)
    /\ dgram[reading.off + 1] >= 192
    /\ (dgram[reading.off + 1] % 64) * 256 + dgram[reading.off + 2] >= reading.first

\* C6: read_name ends after a bounded number of passes on every datagram;
\* at a pointer whose target is at or after first the name is rejected
\* (IncomingDecodeError), and the message parsed from a datagram whose
\* first name is rejected has valid = FALSE and no exception leaves it.
CycleRejection ==
    /\ [](reading.passes <= read_name_passes(dgram))
    /\ [][pointer_not_before_first => reading'.status = "IncomingDecodeError"]_vars
    /\ []((inc # <<>> /\ reading.status = "IncomingDecodeError") =>
              (~inc[1].valid /\ inc[1].exc = ""))

\* the first name of the datagram is a pointer to itself, read_name has
\* rejected it and the datagram was parsed
CycleRejectionWitness ==
    /\ inc # <<>>
    /\ Len(dgram) >= 14
    /\ dgram[13] = 192
    /\ dgram[14] = 12
    /\ reading.status = "IncomingDecodeError"
    /\ reading.passes = 1

\* C7: DNSIncoming(data) returns without an exception leaving it, for
\* every data: the message is valid, or it is not valid and the failure
\* to decode was logged.
ParsingNeverRaises ==
    inc # <<>> =>
        /\ inc[1].exc = ""
        /\ inc[1].valid \/ inc[1].warnings = 1

(***************************************************************************)
(* Emission order                                                          *)
(***************************************************************************)
RECURSIVE counts_before(_, _, _)
\* the sum of the i-th header field of the packets before the k-th of ps
counts_before(ps, k, i) ==
    IF k <= 1 THEN 0 ELSE header_short(ps[k - 1], i) + counts_before(ps, k - 1, i)

\* the n elements of the sequence s that follow its first a elements, the
\* sequence being long enough
following(s, a, n) == SubSeq(s, a + 1, a + n)

\* the records the k-th packet of ps is due to hold: for each section the
\* elements that follow those the packets before it announced
records_due(o, ps, k) ==
    following([i \in 1..Len(o.answers) |-> o.answers[i][1]],
              counts_before(ps, k, 4), header_short(ps[k], 4))
    \o following(o.authorities, counts_before(ps, k, 5), header_short(ps[k], 5))
    \o following(o.additionals, counts_before(ps, k, 6), header_short(ps[k], 6))

\* the questions the k-th packet of ps is due to hold
questions_due(o, ps, k) ==
    following(o.questions, counts_before(ps, k, 3), header_short(ps[k], 3))

\* the entries parsed are, in order, the first of the entries due
parsed_as_due(parsed, due) ==
    /\ Len(parsed) <= Len(due)
    /\ \A j \in 1..Len(parsed) :
           j <= Len(due) =>
               parsed[j].type = due[j].type /\ parsed[j].class_ = due[j].class_

\* the sections of the k-th packet of ps do not go past the sequences
within_sequences(o, ps, k) ==
    /\ counts_before(ps, k, 3) + header_short(ps[k], 3) <= Len(o.questions)
    /\ counts_before(ps, k, 4) + header_short(ps[k], 4) <= Len(o.answers)
    /\ counts_before(ps, k, 5) + header_short(ps[k], 5) <= Len(o.authorities)
    /\ counts_before(ps, k, 6) + header_short(ps[k], 6) <= Len(o.additionals)

\* C11: each packet holds, in the order questions, answers, authorities,
\* additionals, the elements of each sequence that follow, in insertion
\* order, those the packets before it hold: what a peer parses from a
\* packet are the elements due to it, in that order, and all of them when
\* the parse is valid.
EmissionOrder ==
    inc # <<>> =>
        \A k \in 1..Len(out.packets_data) :
            out.packets_data[k] = dgram =>
                /\ within_sequences(out, out.packets_data, k)
                /\ parsed_as_due(inc[1].questions, questions_due(out, out.packets_data, k))
                /\ parsed_as_due(inc[1].answers, records_due(out, out.packets_data, k))
                /\ inc[1].valid =>
                       /\ Len(inc[1].questions) = header_short(dgram, 3)
                       /\ Len(inc[1].answers) =
                              header_short(dgram, 4) + header_short(dgram, 5)
                                  + header_short(dgram, 6)

\* a peer parsed the second packet, which holds an answer that follows the
\* answer of the first packet, and an additional
EmissionOrderWitness ==
    /\ inc # <<>>
    /\ inc[1].valid
    /\ Len(out.packets_data) >= 2
    /\ out.packets_data[2] = dgram
    /\ out.packets_data[1] # dgram
    /\ header_short(out.packets_data[1], 4) >= 1
    /\ header_short(dgram, 4) >= 1

(***************************************************************************)
(* Assembly of elements at the length limits of labels and of character-   *)
(* strings (specification LimitSpec)                                       *)
(***************************************************************************)
\* a question whose name has a label of MAX_LABEL + 1 bytes
QuestionTooLongLabel == DNSQuestion(NameTooLongLabel, TYPE_A, CLASS_IN)

\* an HINFO record whose cpu has n bytes
RecHinfoOf(n) ==
    DNSHinfo(NameALocal, TYPE_HINFO, CLASS_IN, TtlShort, CreatedAt, Rep(99, n), <<111>>)

LimitQuestions == {QuestionA, QuestionLongLabel, QuestionTooLongLabel}

\* a TXT record of the name "B.local", half a typical packet long
RecTextNoDot == DNSText(NameNoDot, TYPE_TXT, CLASS_IN, TtlLong, CreatedAt, Rep(120, TextMid))

LimitAnswers ==
    {<<RecHinfoOf(MAX_CHARACTER_STRING - 1), 0>>, <<RecHinfoOf(MAX_CHARACTER_STRING), 0>>,
     <<RecHinfoOf(MAX_CHARACTER_STRING + 1), 0>>, <<RecPointer, 0>>,
     <<RecTextMid, 0>>, <<RecTextNoDot, 0>>, <<RecTextHuge, 0>>}

LimitNext ==
    \/ AddQuestion(LimitQuestions)
    \/ AddAnswerAtTime(LimitAnswers)
    \/ PacketsCall
    \/ WriteQuestion
    \/ WriteAnswer
    \/ WriteAuthority
    \/ WriteAdditional
    \/ ClosePacket

LimitSpec == Init /\ [][LimitNext]_vars

\* a call of packets() is under way
Running == frame.pc \in {"questions", "answers", "authorities", "additionals", "header"}

\* a step of a call of packets() that is under way, by what it does to the
\* frame: an element is counted, or the section loop is left, or an
\* exception goes up, or the pass ends (the loop goes on with the offsets
\* advanced, or packets() returns)
RunningStep ==
    /\ Running
    /\ frame' \in {[frame EXCEPT !.pc = p] :
                       p \in {"answers", "authorities", "additionals", "header", "raised"}}
                  \cup {[frame EXCEPT ![c] = @ + 1] :
                           c \in {"questions_written", "answers_written",
                                  "authorities_written", "additionals_written"}}
                  \cup {Idle, [advanced(frame) EXCEPT
                                  !.pc = "questions",
                                  !.questions_written = 0, !.answers_written = 0,
                                  !.authorities_written = 0, !.additionals_written = 0]}

\* a call of packets() that has begun goes on until it returns or raises:
\* the codec is single-threaded and nothing suspends a call
LimitFairSpec == LimitSpec /\ WF_frame(RunningStep)

\* the labels of name are of at most MAX_LABEL bytes
labels_fit(name) ==
    \A i \in 1..Len(name_parts(name)) : Len(Encode(name_parts(name)[i])) <= MAX_LABEL

\* the labels of the names of the entry e are of at most MAX_LABEL bytes
\* and its character-strings of at most MAX_CHARACTER_STRING bytes
entry_fits(e) ==
    /\ labels_fit(e.name)
    /\ labels_fit(e.alias)
    /\ labels_fit(e.server)
    /\ Len(Encode(e.cpu)) <= MAX_CHARACTER_STRING
    /\ Len(Encode(e.os)) <= MAX_CHARACTER_STRING

\* every element of the builder fits
elements_fit(o) ==
    /\ \A i \in 1..Len(o.questions) : entry_fits(o.questions[i])
    /\ \A i \in 1..Len(o.answers) : entry_fits(o.answers[i][1])
    /\ \A i \in 1..Len(o.authorities) : entry_fits(o.authorities[i])
    /\ \A i \in 1..Len(o.additionals) : entry_fits(o.additionals[i])

\* C12: packets() raises NamePartTooLong, and nothing else, exactly when
\* a label of more than 64 bytes or a character-string of more than 256
\* bytes is among the elements; it returns when every label and every
\* character-string fits.
OnlyNamePartTooLong ==
    [][/\ (frame.pc # "raised" /\ frame'.pc = "raised") =>
              (out'.exc = "NamePartTooLongException" /\ ~elements_fit(out'))
       /\ (ret = <<>> /\ ret' # <<>>) => elements_fit(out')]_vars

\* the section loop of packets() is at an element it has yet to write
element_pending ==
    CASE frame.pc = "questions" ->
            frame.questions_offset + frame.questions_written < Len(out.questions)
      [] frame.pc = "answers" -> frame.answer_offset + frame.answers_written < Len(out.answers)
      [] frame.pc = "authorities" ->
            frame.authority_offset + frame.authorities_written < Len(out.authorities)
      [] frame.pc = "additionals" ->
            frame.additional_offset + frame.additionals_written < Len(out.additionals)
      [] OTHER -> FALSE

\* C17: when write_question or write_record returns False (the element at
\* hand is not counted and the section loop breaks), the chunk buffer, the
\* size and the compression dictionary are what they were before the write.
RollbackRestores ==
    [][(element_pending /\ frame'.pc \notin {frame.pc, "raised"}) =>
           /\ out'.data = out.data
           /\ out'.size = out.size
           /\ out'.names = out.names]_vars

\* a pass of the loop of packets() other than the first ends having written
\* nothing
later_pass_wrote_nothing ==
    /\ frame.pc = "header"
    /\ out.packets_data # <<>>
    /\ frame.questions_written + frame.answers_written
           + frame.authorities_written + frame.additionals_written = 0

\* every pass after the first writes an element or is the last, and what
\* packets() returns has at most one packet more than there are elements
passes_progress ==
    /\ [][later_pass_wrote_nothing => frame'.pc \in {"idle", "raised"}]_vars
    /\ [][(frame.pc # "idle" /\ frame'.pc = "idle") =>
             /\ out'.state = "finished"
             /\ Len(out'.packets_data) <= Elements(out') + 1]_vars

\* C19: a call of packets() terminates and leaves the builder in state
\* finished; every pass of its loop other than the first writes at least
\* one element or is the last, so that the packets are at most one more
\* than the elements.
PacketsTerminateFinished ==
    /\ (frame.pc # "idle") ~> (frame.pc = "idle" /\ out.state = "finished")
    /\ passes_progress

\* C19 with the exception: a call of packets() terminates, by raising the
\* exception of a write or by returning with the builder in state
\* finished; the passes progress as stated.
PacketsTerminate ==
    /\ (frame.pc # "idle") ~>
           (frame.pc = "raised" \/ (frame.pc = "idle" /\ out.state = "finished"))
    /\ passes_progress

\* packets() returned two packets for two elements, the second packet from
\* a pass that wrote nothing
PacketsTerminateWitness ==
    /\ ret # <<>>
    /\ out.state = "finished"
    /\ Elements(out) = 2
    /\ Len(ret[1]) = 2
    /\ header_elements(ret[1][2]) = 0

(***************************************************************************)
(* The entities alone (specification EntitySpec): questions and records    *)
(* are constructed by a caller, or by the parser from a datagram that      *)
(* holds one, and two records are compared with ==.  call holds the        *)
(* operation, its arguments and its result.                                *)
(***************************************************************************)
\* "A.local."
NameUpperALocal == <<65>> \o Tail(NameALocal)

\* the names of the entities, and the names as they stand in a datagram
EntityNames == {NameALocal, NameUpperALocal, NameNoDot}
WireNames == {<<n, <<1, n[1], 5>> \o Local \o <<0>>>> : n \in {NameALocal, NameUpperALocal}}

\* 16-bit class values, with and without the top bit
EntityClasses == {0, CLASS_IN, CLASS_MASK, CLASS_UNIQUE, CLASS_IN + CLASS_UNIQUE, CLASS_MASK + CLASS_UNIQUE}

\* the records that are compared
EqNames == {NameALocal, NameUpperALocal, NameBLocal}
EqClasses == {CLASS_IN, CLASS_IN + CLASS_UNIQUE}
EqRecords ==
    {DNSAddress(n, TYPE_A, c, ttl, CreatedAt, <<10, 0, 0, 1>>) :
        n \in EqNames, c \in EqClasses, ttl \in {TtlShort, TtlLong}}
    \cup {DNSAddress(NameALocal, TYPE_A, CLASS_IN, TtlShort, CreatedAt, <<10, 0, 0, 2>>),
          DNSAddress(NameALocal, TYPE_AAAA, CLASS_IN, TtlShort, CreatedAt, <<10, 0, 0, 1>>),
          DNSAddress(NameALocal, TYPE_A, CLASS_IN, TtlShort, NowFresh, <<10, 0, 0, 1>>),
          DNSAddress(NameALocal, TYPE_A, CLASS_IN - 1, TtlShort, CreatedAt, <<10, 0, 0, 1>>),
          DNSText(NameALocal, TYPE_A, CLASS_IN, TtlShort, CreatedAt, <<10, 0, 0, 1>>),
          DNSText(NameALocal, TYPE_A, CLASS_IN, TtlLong, NowFresh, <<10, 0, 0, 2>>),
          DNSPointer(NameLocal, TYPE_PTR, CLASS_IN, TtlLong, CreatedAt, NameALocal),
          DNSPointer(NameLocal, TYPE_PTR, CLASS_IN + CLASS_UNIQUE, TtlShort, CreatedAt, NameALocal),
          DNSPointer(NameLocal, TYPE_PTR, CLASS_IN, TtlLong, CreatedAt, NameUpperALocal),
          DNSHinfo(NameALocal, TYPE_HINFO, CLASS_IN, TtlShort, CreatedAt, <<99>>, <<111>>),
          DNSHinfo(NameALocal, TYPE_HINFO, CLASS_IN, TtlLong, NowFresh, <<99>>, <<111>>),
          DNSHinfo(NameALocal, TYPE_HINFO, CLASS_IN, TtlShort, CreatedAt, <<100>>, <<111>>),
          DNSHinfo(NameALocal, TYPE_HINFO, CLASS_IN, TtlShort, CreatedAt, <<99>>, <<112>>),
          DNSService(NameALocal, TYPE_SRV, CLASS_IN, TtlShort, CreatedAt, 0, 0, 80, NameBLocal),
          DNSService(NameALocal, TYPE_SRV, CLASS_IN + CLASS_UNIQUE, TtlLong, CreatedAt, 0, 0, 80, NameBLocal),
          DNSService(NameALocal, TYPE_SRV, CLASS_IN, TtlShort, CreatedAt, 1, 0, 80, NameBLocal),
          DNSService(NameALocal, TYPE_SRV, CLASS_IN, TtlShort, CreatedAt, 0, 1, 80, NameBLocal),
          DNSService(NameALocal, TYPE_SRV, CLASS_IN, TtlShort, CreatedAt, 0, 0, 81, NameBLocal),
          DNSService(NameALocal, TYPE_SRV, CLASS_IN, TtlShort, CreatedAt, 0, 0, 80, NameALocal)}

\* a caller constructs a question or a record
Construct ==
    /\ \E n \in EntityNames, c \in EntityClasses, v \in {"DNSQuestion", "DNSAddress", "DNSPointer"} :
          call' = [op |-> "__init__", name |-> n, given |-> c, other |-> None, result |-> FALSE,
                   record |-> CASE v = "DNSQuestion" -> DNSQuestion(n, TYPE_ANY, c)
                                [] v = "DNSAddress" ->
                                       DNSAddress(n, TYPE_A, c, TtlShort, CreatedAt, <<10, 0, 0, 1>>)
                                [] OTHER -> DNSPointer(n, TYPE_PTR, c, TtlLong, CreatedAt, NameALocal)]
    /\ UNCHANGED <<out, frame, ret, inc, dgram, written, reading>>

\* the parser constructs the question of a datagram
ParseQuestion ==
    /\ \E w \in WireNames, c \in EntityClasses :
          LET data == PackH(0) \o PackH(FLAGS_QR_QUERY) \o PackH(1) \o PackH(0) \o PackH(0)
                      \o PackH(0) \o w[2] \o PackH(TYPE_PTR) \o PackH(c)
              m == DNSIncoming(data, CreatedAt)
          IN  call' = [op |-> "read_questions", name |-> w[1], given |-> c, other |-> None,
                      result |-> FALSE,
                      record |-> IF Len(m.questions) = 1 THEN m.questions[1] ELSE None]
    /\ UNCHANGED <<out, frame, ret, inc, dgram, written, reading>>

\* the parser constructs the record of a datagram
ParseRecord ==
    /\ \E w \in WireNames, c \in EntityClasses :
          LET data == PackH(0) \o PackH(FLAGS_QR_RESPONSE) \o PackH(0) \o PackH(1) \o PackH(0)
                      \o PackH(0) \o w[2] \o PackH(TYPE_A) \o PackH(c) \o PackI(TtlShort)
                      \o PackH(4) \o <<10, 0, 0, 1>>
              m == DNSIncoming(data, CreatedAt)
          IN  call' = [op |-> "read_others", name |-> w[1], given |-> c, other |-> None,
                      result |-> FALSE,
                      record |-> IF Len(m.answers) = 1 THEN m.answers[1] ELSE None]
    /\ UNCHANGED <<out, frame, ret, inc, dgram, written, reading>>

\* self == other on two records
Compare ==
    /\ \E self \in EqRecords, other \in EqRecords :
          call' = [op |-> "__eq__", name |-> self.name, given |-> self.class_, record |-> self,
                   other |-> other, result |-> DNSRecord_eq(self, other)]
    /\ UNCHANGED <<out, frame, ret, inc, dgram, written, reading>>

EntityInit ==
    /\ out = DNSOutgoing(FLAGS_QR_QUERY, TRUE, 0)
    /\ frame = Idle
    /\ ret = <<>>
    /\ inc = <<>>
    /\ dgram = <<>>
    /\ written = <<>>
    /\ reading = NotReading
    /\ call = [op |-> "", name |-> <<>>, given |-> 0, other |-> None, result |-> FALSE,
               record |-> None]

EntityNext ==
    \/ Construct
    \/ ParseQuestion
    \/ ParseRecord
    \/ Compare

EntitySpec == EntityInit /\ [][EntityNext]_vars

\* the variant-specific rdata fields of a record
rdata_fields(r) ==
    CASE r.variant = "DNSAddress" -> <<r.address>>
      [] r.variant = "DNSHinfo" -> <<r.cpu, r.os>>
      [] r.variant = "DNSPointer" -> <<r.alias>>
      [] r.variant = "DNSText" -> <<r.text>>
      [] r.variant = "DNSService" -> <<r.priority, r.weight, r.port, r.server>>
      [] OTHER -> <<>>

\* what decides the equality of records: the variant, the lowercased name,
\* the type, the 15 bits of the class, the rdata
record_identity(r) ==
    <<r.variant, Lower(r.name), r.type, r.class_ % CLASS_UNIQUE, rdata_fields(r)>>

\* C13: two records compare equal if and only if they are of the same
\* variant, have the same key, type and class (the unique bit masked out)
\* and the same rdata fields; so records that differ in ttl, created or the
\* unique flag only compare equal.
RecordEquality ==
    call.op = "__eq__" =>
        (call.result <=> record_identity(call.record) = record_identity(call.other))

\* two records that differ in ttl, in the unique flag and in the case of the
\* name were compared and are equal
RecordEqualityWitness ==
    /\ call.op = "__eq__"
    /\ call.result
    /\ call.record.ttl # call.other.ttl
    /\ call.record.unique # call.other.unique
    /\ call.record.name # call.other.name

\* C14: a question or record constructed by a caller or by the parser from
\* a name and a 16-bit class value has key = lowercase(name), the unique
\* bit cleared in class_, and unique set exactly when the top bit of the
\* class value given was set.
EntryInvariants ==
    call.op \in {"__init__", "read_questions", "read_others"} =>
        /\ call.record # None
        /\ call.record.key = Lower(call.name)
        /\ BitAnd(call.record.class_, CLASS_UNIQUE) = 0
        /\ call.record.class_ = call.given % CLASS_UNIQUE
        /\ call.record.unique <=> (call.given \div CLASS_UNIQUE) % 2 = 1

\* the parser constructed a record from an upper-case name and a class value
\* with the top bit set
EntryInvariantsWitness ==
    /\ call.op = "read_others"
    /\ call.name = NameUpperALocal
    /\ call.given = CLASS_MASK + CLASS_UNIQUE
    /\ call.record # None
    /\ call.record.unique

(***************************************************************************)
(* Further properties of packets() (specification Spec)                    *)
(***************************************************************************)
\* C15: in every packet packets() returns the first 16-bit field of the
\* header is 0 when the builder is multicast and the id the caller gave
\* the builder when it is not.
TransactionIdField ==
    \A i \in 1..Len(ret) : \A k \in 1..Len(ret[i]) :
        header_short(ret[i][k], 1) = IF out.multicast THEN 0 ELSE out.id

\* packets() returned two packets of a multicast builder that was given a
\* non-zero id
TransactionIdFieldWitness ==
    /\ ret # <<>>
    /\ Len(ret[1]) = 2
    /\ out.multicast
    /\ out.id = TransactionId
    /\ header_short(ret[1][2], 1) = 0

(***************************************************************************)
(* read_others record by record (specification SkipSpec): the datagram     *)
(* holds records of known and of unknown types, call holds the records the *)
(* datagram was made of and the number of them read so far.                *)
(***************************************************************************)
\* the most records a datagram holds
MaxRecords == 3

\* a record as it stands in a datagram: the name "a", the fixed header with
\* the length of the rdata, the rdata
WireRecord(type_, class_, rdata) ==
    [type |-> type_,
     bytes |-> <<1, 97, 0>> \o PackH(type_) \o PackH(class_) \o PackI(TtlShort)
               \o PackH(Len(rdata)) \o rdata]

\* records of types the parser knows (A, TXT, PTR) and of types it does not
\* (255, 0 and 47), the latter with rdata of 0, 1 and 3 bytes
WireRecords ==
    {WireRecord(TYPE_A, CLASS_IN, <<10, 0, 0, 1>>),
     WireRecord(TYPE_TXT, CLASS_IN + CLASS_UNIQUE, <<1, 120>>),
     WireRecord(TYPE_PTR, CLASS_IN, <<1, 98, 0>>),
     WireRecord(TYPE_ANY, CLASS_IN, <<>>),
     WireRecord(0, CLASS_IN, <<7>>),
     WireRecord(TYPE_SRV + 14, CLASS_IN + CLASS_UNIQUE, <<1, 97, 0>>)}

KnownTypes == {TYPE_A, TYPE_AAAA, TYPE_PTR, TYPE_CNAME, TYPE_TXT, TYPE_SRV, TYPE_HINFO}

RECURSIVE JoinBytes(_)
\* the records one after the other
JoinBytes(rs) == IF rs = <<>> THEN <<>> ELSE Head(rs).bytes \o JoinBytes(Tail(rs))

\* a response whose answer section holds the records rs
ResponseOf(rs) ==
    PackH(0) \o PackH(FLAGS_QR_RESPONSE) \o PackH(0) \o PackH(Len(rs)) \o PackH(0) \o PackH(0)
    \o JoinBytes(rs)

\* DNSIncoming.__init__: read_header and read_questions
ReadHeader ==
    /\ inc = <<>>
    /\ call.op = "read_others"
    /\ inc' = <<read_header_questions(read_header(DNSIncoming_fields(dgram)))>>
    /\ UNCHANGED <<out, frame, ret, dgram, written, reading, call>>

\* read_others: one pass of its loop
ReadOther ==
    /\ inc # <<>>
    /\ call.op = "read_others"
    /\ inc[1].exc = ""
    /\ call.read < inc[1].num_answers + inc[1].num_authorities + inc[1].num_additionals
    /\ inc' = <<read_other(read_name(inc[1]), CreatedAt)>>
    /\ call' = [call EXCEPT !.read = @ + 1]
    /\ UNCHANGED <<out, frame, ret, dgram, written, reading>>

\* DNSIncoming.__init__: read_others is over, the try statement ends
EndOfParse ==
    /\ inc # <<>>
    /\ call.op = "read_others"
    /\ \/ inc[1].exc # ""
       \/ call.read = inc[1].num_answers + inc[1].num_authorities + inc[1].num_additionals
    /\ inc' = <<try_end(inc[1])>>
    /\ call' = [call EXCEPT !.op = "parsed"]
    /\ UNCHANGED <<out, frame, ret, dgram, written, reading>>

SkipInit ==
    /\ out = DNSOutgoing(FLAGS_QR_QUERY, TRUE, 0)
    /\ frame = Idle
    /\ ret = <<>>
    /\ inc = <<>>
    /\ \E rs \in UNION {[1..n -> WireRecords] : n \in 0..MaxRecords} :
          /\ dgram = ResponseOf(rs)
          /\ call = [op |-> "read_others", records |-> rs, read |-> 0]
    /\ written = <<>>
    /\ reading = NotReading

SkipNext ==
    \/ ReadHeader
    \/ ReadOther
    \/ EndOfParse

SkipSpec == SkipInit /\ [][SkipNext]_vars

\* the records of rs of the types the parser knows
RECURSIVE known_records(_)
known_records(rs) ==
    IF rs = <<>> THEN <<>>
    ELSE IF Head(rs).type \in KnownTypes THEN <<Head(rs)>> \o known_records(Tail(rs))
    ELSE known_records(Tail(rs))

\* the next pass of read_others reads a record of an unknown type
at_unknown_record ==
    /\ inc # <<>>
    /\ call.op = "read_others"
    /\ call.read < Len(call.records)
    /\ call.records[call.read + 1].type \notin KnownTypes

\* C16: a pass of read_others on a record of an unknown type moves the
\* cursor to rdlength bytes past the fixed header of the record (the 10
\* bytes that follow its name) and appends nothing to answers; and the
\* answers parsed from the datagram are those parsed from the datagram
\* made of its records of known types alone.
UnknownTypeSkipped ==
    /\ [][at_unknown_record /\ inc' # inc =>
             /\ inc'[1].exc = ""
             /\ inc'[1].answers = inc[1].answers
             /\ inc'[1].offset = inc[1].offset + 3 + 10
                    + UnpackH(SubSeq(dgram, inc[1].offset + 12, inc[1].offset + 13))]_vars
    /\ [](call.op = "parsed" =>
             /\ inc[1].valid
             /\ inc[1].answers = DNSIncoming(ResponseOf(known_records(call.records)), CreatedAt).answers
             /\ Len(inc[1].answers) = Len(known_records(call.records)))

\* a datagram with a record of an unknown type that carries 3 bytes of rdata
\* between two records of known types was parsed
UnknownTypeSkippedWitness ==
    /\ call.op = "parsed"
    /\ Len(call.records) = 3
    /\ call.records[1].type = TYPE_A
    /\ call.records[2].type = TYPE_SRV + 14
    /\ call.records[3].type = TYPE_TXT
    /\ Len(inc[1].answers) = 2

\* a builder that holds nothing: an empty packet
EmptyPacket == DNSOutgoing(FLAGS_QR_RESPONSE, TRUE, 0)

\* the sequence of o counted by the i-th header field
section(o, i) ==
    CASE i = 3 -> o.questions
      [] i = 4 -> o.answers
      [] i = 5 -> o.authorities
      [] OTHER -> o.additionals

\* the j-th element of that sequence written alone into an empty packet:
\* the object after the write and whether the write held
solo_write(o, i, j) ==
    CASE i = 3 -> write_question(EmptyPacket, o.questions[j])
      [] i = 4 -> write_record(EmptyPacket, o.answers[j][1], o.answers[j][2])
      [] i = 5 -> write_record(EmptyPacket, o.authorities[j], 0)
      [] OTHER -> write_record(EmptyPacket, o.additionals[j], 0)

\* every element alone gives a packet of at most MAX_MSG_ABSOLUTE bytes
solo_all_fit(o) ==
    \A i \in 3..6 : \A j \in 1..Len(section(o, i)) : solo_write(o, i, j).ok

\* the packet of ps that holds the j-th element of the section whose count
\* is the i-th header field
packet_of(ps, i, j) ==
    CHOOSE k \in 1..Len(ps) : counts_before(ps, k, i) < j /\ j <= counts_before(ps, k + 1, i)

\* the packet p holds one element and is size bytes long, if size exceeds
\* MAX_MSG_TYPICAL
alone_if_long(p, size) ==
    size > MAX_MSG_TYPICAL => (header_elements(p) = 1 /\ Len(p) = size)

\* the packets ps hold every element of o once, and each element that alone
\* exceeds MAX_MSG_TYPICAL is the one element of its packet
emitted_completely(o, ps) ==
    /\ \A i \in 3..6 : counts_before(ps, Len(ps) + 1, i) = Len(section(o, i))
    /\ \A i \in 3..6 : \A j \in 1..Len(section(o, i)) :
           alone_if_long(ps[packet_of(ps, i, j)], solo_write(o, i, j).o.size)

\* C20: when every element of the builder, written alone into an empty
\* packet, gives a packet of at most MAX_MSG_ABSOLUTE bytes, the packets
\* packets() returns hold every element once (the section counts of the
\* packets sum to the lengths of the four sequences), and an element that
\* alone exceeds MAX_MSG_TYPICAL is alone in its packet, so that the
\* element after it starts the next packet.
Completeness ==
    [][(ret = <<>> /\ ret' # <<>> /\ solo_all_fit(out')) =>
           emitted_completely(out', ret'[1])]_vars

\* packets() returned two packets for a record that alone exceeds
\* MAX_MSG_TYPICAL followed by a second record
CompletenessWitness ==
    /\ ret # <<>>
    /\ Len(out.answers) = 2
    /\ Elements(out) = 2
    /\ solo_all_fit(out)
    /\ solo_write(out, 4, 1).o.size > MAX_MSG_TYPICAL
    /\ Len(ret[1]) = 2
    /\ header_elements(ret[1][2]) = 1

RECURSIVE write_questions(_, _)
\* the questions qs written one after the other
write_questions(o, qs) ==
    IF qs = <<>> THEN o ELSE write_questions(write_question(o, Head(qs)).o, Tail(qs))

RECURSIVE write_records(_, _)
\* the (record, now) pairs rs written one after the other
write_records(o, rs) ==
    IF rs = <<>> THEN o ELSE write_records(write_record(o, Head(rs)[1], Head(rs)[2]).o, Tail(rs))

\* the (record, now) pairs the header of the k-th packet of ps announces
pairs_due(o, ps, k) ==
    following(o.answers, counts_before(ps, k, 4), header_short(ps[k], 4))
    \o [j \in 1..header_short(ps[k], 5) |->
           <<following(o.authorities, counts_before(ps, k, 5), header_short(ps[k], 5))[j], 0>>]
    \o [j \in 1..header_short(ps[k], 6) |->
           <<following(o.additionals, counts_before(ps, k, 6), header_short(ps[k], 6))[j], 0>>]

\* the bytes that follow the header of a packet that holds the elements the
\* header of the k-th packet of ps announces, and nothing else
body_announced(o, ps, k) ==
    Join(write_records(write_questions(DNSOutgoing(o.flags, o.multicast, o.id),
                                       questions_due(o, ps, k)),
                       pairs_due(o, ps, k)).data)

\* C21: in every packet packets() returns the four counts that follow id
\* and flags in the header are the numbers of questions, answers,
\* authorities and additionals whose bytes the packet holds: the bytes after
\* the header are those of that many elements of each sequence, in order,
\* and no others.
HeaderCounts ==
    [][(ret = <<>> /\ ret' # <<>>) =>
           \A k \in 1..Len(ret'[1]) :
               /\ Len(ret'[1][k]) >= 12
               /\ within_sequences(out', ret'[1], k)
               /\ SubSeq(ret'[1][k], 13, Len(ret'[1][k])) = body_announced(out', ret'[1], k)]_vars

\* packets() returned a first packet that holds an additional and no
\* answer, the one answer of the builder having been rolled back
HeaderCountsWitness ==
    /\ ret # <<>>
    /\ Len(ret[1]) = 2
    /\ Len(out.answers) = 1
    /\ header_short(ret[1][1], 4) = 0
    /\ header_short(ret[1][1], 6) = 1

\* an element of o is in none of the first k packets of ps
remains_after(o, ps, k) ==
    \E i \in 3..6 : counts_before(ps, k + 1, i) < Len(section(o, i))

\* C22: the flags field of a packet is the flags of the builder with TC set
\* when the message is a query and an element remains unemitted after the
\* packet, and the flags of the builder otherwise; the flags of a response
\* are never changed.
FlagsPassThrough ==
    [][(ret = <<>> /\ ret' # <<>>) =>
           \A k \in 1..Len(ret'[1]) :
               header_short(ret'[1][k], 2) =
                   IF BitAnd(out'.flags, FLAGS_QR_MASK) = FLAGS_QR_QUERY
                          /\ remains_after(out', ret'[1], k)
                   THEN out'.flags + FLAGS_TC
                   ELSE out'.flags]_vars

\* packets() returned two packets of a response: an element remained after
\* the first and its flags are those of the builder
FlagsPassThroughWitness ==
    /\ ret # <<>>
    /\ Len(ret[1]) = 2
    /\ out.flags = FLAGS_QR_RESPONSE + 1024
    /\ header_elements(ret[1][2]) = 1
    /\ header_short(ret[1][1], 2) = out.flags

(***************************************************************************)
(* The ttl field through a packet (specification TtlSpec): a record is     *)
(* written at reference time 0 and the packet is parsed record by record.  *)
(* The ttl is any value of 32 bits; it is given by its two 16-bit halves,  *)
(* the values from 2^31 on being beyond the integers of the checker.       *)
(***************************************************************************)
\* the halves of the ttl values: 0, 1, 2^15 - 1, 2^15, 2^16 - 1 and others
TtlHalves == {0, 1, 120, 32767, 32768, 40000, 65535}

\* write_int on the value high * 2^16 + low
write_int_halves(o, high, low) == pack(o, PackH(high) \o PackH(low))

\* write_record with now = 0 on a record whose ttl is high * 2^16 + low
write_record_ttl(o, record, high, low) ==
    checked(
        write_rdata(
            write_int_halves(
                write_record_class(
                    write_short(write_name(o, record.name), record.type), record),
                high, low),
            record),
        Len(o.data), o.size)

\* a response is given one record and packets() is called
WriteTtl ==
    /\ call.op = "write_record"
    /\ \E high \in TtlHalves, low \in TtlHalves, record \in {RecAddress, RecPointer} :
          LET o == write_record_ttl(out, record, high, low).o
              f == [Idle EXCEPT !.answers_written = 1]
          IN  /\ out' = o
              /\ dgram' = Join(packet_header(o, f).data)
              /\ call' = [op |-> "read_others", records |-> <<[high |-> high, low |-> low]>>,
                          read |-> 0]
    /\ UNCHANGED <<frame, ret, inc, written, reading>>

TtlInit ==
    /\ out = DNSOutgoing(FLAGS_QR_RESPONSE, TRUE, 0)
    /\ frame = Idle
    /\ ret = <<>>
    /\ inc = <<>>
    /\ dgram = <<>>
    /\ written = <<>>
    /\ reading = NotReading
    /\ call = [op |-> "write_record", records |-> <<>>, read |-> 0]

TtlNext ==
    \/ WriteTtl
    \/ ReadHeader
    \/ ReadOther
    \/ EndOfParse

TtlSpec == TtlInit /\ [][TtlNext]_vars

\* C24: a record written with a ttl in 0 .. 2^32 - 1 at reference time 0
\* carries the ttl in its packet as 32 bits, unsigned, the high byte first,
\* and the record parsed from the packet has the same ttl.
TtlRoundTrip ==
    call.op = "parsed" =>
        /\ inc[1].valid
        /\ Len(inc[1].answers) = 1
        /\ \E at \in 13..(Len(dgram) - 3) :
               SubSeq(dgram, at, at + 3) =
                   <<call.records[1].high \div 256, call.records[1].high % 256,
                     call.records[1].low \div 256, call.records[1].low % 256>>
        /\ inc[1].answers[1].ttl >= 0
        /\ inc[1].answers[1].ttl \div 65536 = call.records[1].high
        /\ inc[1].answers[1].ttl % 65536 = call.records[1].low
(***************************************************************************)
(* The deadlines of a record: a record is constructed, then reset_ttl is   *)
(* called on it with other records (specification DeadlineSpec: call holds *)
(* the record, the record before the last call and the other record)       *)
(***************************************************************************)
\* the ttl of the records; -1 is what a parsed ttl of 2^32 - 1 becomes
DeadlineTtls == {-1, 0, 1, TtlShort, TtlLong}

\* the clock when the records are constructed
DeadlineClocks == {0, CreatedAt, NowFresh}

\* the records reset_ttl is called with
DeadlineOthers ==
    {DNSPointer(NameLocal, TYPE_PTR, CLASS_IN, ttl, created, NameBLocal) :
        ttl \in DeadlineTtls, created \in DeadlineClocks}

\* DNSRecord.__init__ of a DNSAddress when the clock shows created
ConstructRecord ==
    /\ call.op = "record"
    /\ \E ttl \in DeadlineTtls, created \in DeadlineClocks :
           LET record == DNSAddress(NameALocal, TYPE_A, CLASS_IN, ttl, created,
                                    <<192, 168, 0, 1>>)
           IN  call' = [op |-> "__init__", record |-> record, before |-> record,
                        other |-> record]
    /\ UNCHANGED <<out, frame, ret, inc, dgram, written, reading>>

\* record.reset_ttl(other)
ResetTtl ==
    /\ call.op \in {"__init__", "reset_ttl"}
    /\ \E other \in DeadlineOthers :
           call' = [op |-> "reset_ttl", record |-> reset_ttl(call.record, other),
                    before |-> call.record, other |-> other]
    /\ UNCHANGED <<out, frame, ret, inc, dgram, written, reading>>

DeadlineInit ==
    /\ out = DNSOutgoing(FLAGS_QR_RESPONSE, TRUE, 0)
    /\ frame = Idle
    /\ ret = <<>>
    /\ inc = <<>>
    /\ dgram = <<>>
    /\ written = <<>>
    /\ reading = NotReading
    /\ call = [op |-> "record", record |-> None, before |-> None, other |-> None]

DeadlineNext ==
    \/ ConstructRecord
    \/ ResetTtl

DeadlineSpec == DeadlineInit /\ [][DeadlineNext]_vars

\* a deadline in milliseconds
millis(deadline) == 1000 * deadline.k + deadline.u

\* the milliseconds around the three deadlines of a record
around_deadlines(record) ==
    {record.created + p * record.ttl * 10 + d :
        p \in {RECENT_TIME_PERCENT, EXPIRE_STALE_TIME_PERCENT, EXPIRE_FULL_TIME_PERCENT},
        d \in {-1, 0, 1}}

RECURSIVE name_end(_, _)
\* the offset after the name that stands at offset off of the packet p: a
\* name ends with the byte 0 or with the two bytes of a pointer
name_end(p, off) ==
    IF p[off + 1] = 0 THEN off + 1
    ELSE IF p[off + 1] >= 192 THEN off + 2
    ELSE name_end(p, off + 1 + p[off + 1])

RECURSIVE class_fields(_, _, _, _)
\* the class fields of the nq questions and the nr records that stand at
\* offset off of the packet p, in their order: a question is a name, a type
\* and a class; a record is a name, a type, a class, a ttl of four bytes, a
\* length and that many bytes
class_fields(p, off, nq, nr) ==
    IF nq = 0 /\ nr = 0 THEN <<>>
    ELSE LET at == name_end(p, off)
             class_ == UnpackH(SubSeq(p, at + 3, at + 4))
         IN  IF nq > 0
             THEN <<class_>> \o class_fields(p, at + 4, nq - 1, nr)
             ELSE <<class_>> \o class_fields(p, at + 10 + UnpackH(SubSeq(p, at + 9, at + 10)),
                                              nq, nr - 1)

\* the class field of the element e of a builder: its class, with the top
\* bit when e is unique and the builder multicast
class_field_due(o, e) ==
    IF e.unique /\ o.multicast THEN e.class_ + CLASS_UNIQUE ELSE e.class_

\* the elements due to the k-th packet of ps, questions first
elements_due(o, ps, k) ==
    questions_due(o, ps, k) \o [j \in 1..Len(pairs_due(o, ps, k)) |-> pairs_due(o, ps, k)[j][1]]

\* C28: the class field written for a question or a record has the top bit
\* (0x8000) set if and only if the element is unique and the builder is
\* multicast, the other bits being the class of the element; the elements
\* parsed from a packet of a builder that is not multicast are not unique.
UniqueBitOnWrite ==
    /\ [][(ret = <<>> /\ ret' # <<>>) =>
             \A k \in 1..Len(ret'[1]) :
                 LET fields == class_fields(ret'[1][k], 12, header_short(ret'[1][k], 3),
                                            header_elements(ret'[1][k]) - header_short(ret'[1][k], 3))
                     due == elements_due(out', ret'[1], k)
                 IN  /\ Len(fields) = Len(due)
                     /\ \A j \in 1..Len(due) :
                            /\ fields[j] = class_field_due(out', due[j])
                            /\ fields[j] >= CLASS_UNIQUE <=> (due[j].unique /\ out'.multicast)]_vars
    /\ [](inc # <<>> /\ ~out.multicast =>
             /\ \A i \in 1..Len(inc[1].questions) : ~inc[1].questions[i].unique
             /\ \A i \in 1..Len(inc[1].answers) : ~inc[1].answers[i].unique)

\* a peer parsed the packet of a builder that is not multicast and holds a
\* unique record: the record parsed is not unique; the same record from a
\* multicast builder is covered by the first part of the formula
UniqueBitOnWriteWitness ==
    /\ inc # <<>>
    /\ ~out.multicast
    /\ out.questions = <<QuestionA>>
    /\ out.answers = <<<<RecAddress, 0>>>>
    /\ RecAddress.unique
    /\ inc[1].valid
    /\ Len(inc[1].answers) = 1
    /\ ~inc[1].answers[1].unique

(***************************************************************************)
(* The constructor of the parser, read by read, on datagrams cut short at  *)
(* every length (specification ValidSpec: call holds the read the          *)
(* constructor is at, the numbers of questions and records read so far and *)
(* whether a read has raised)                                              *)
(***************************************************************************)
\* a question for the name "a" and one whose name is a pointer to it
WireQuestions ==
    <<1, 97, 0>> \o PackH(TYPE_A) \o PackH(CLASS_IN)
    \o <<192, 12>> \o PackH(TYPE_PTR) \o PackH(CLASS_IN + CLASS_UNIQUE)

\* the header of a response with two questions, an answer and an authority
WireHeader ==
    PackH(TransactionId) \o PackH(FLAGS_QR_RESPONSE)
    \o PackH(2) \o PackH(1) \o PackH(1) \o PackH(0)

\* messages of two questions and two records: well formed; with a length
\* byte of bits 01 in the place of the second question's name; with an
\* HINFO record whose cpu is not UTF-8
WireMessages ==
    {WireHeader \o WireQuestions
        \o WireRecord(TYPE_A, CLASS_IN, <<10, 0, 0, 1>>).bytes
        \o WireRecord(TYPE_HINFO, CLASS_IN, <<1, 99, 1, 111>>).bytes,
     WireHeader \o <<1, 97, 0>> \o PackH(TYPE_A) \o PackH(CLASS_IN)
        \o <<64, 12>> \o PackH(TYPE_PTR) \o PackH(CLASS_IN)
        \o WireRecord(TYPE_A, CLASS_IN, <<10, 0, 0, 1>>).bytes
        \o WireRecord(TYPE_TXT, CLASS_IN, <<1, 120>>).bytes,
     WireHeader \o WireQuestions
        \o WireRecord(TYPE_PTR, CLASS_IN, <<192, 12>>).bytes
        \o WireRecord(TYPE_HINFO, CLASS_IN, <<1, 255, 1, 111>>).bytes}

\* the messages and what is received of them when they are cut short
CutDatagrams == UNION {{SubSeq(msg, 1, n) : n \in 0..Len(msg)} : msg \in WireMessages}

\* the constructor is at read_questions until they are read or a read has
\* raised, and at read_others then
reads_next(m, asked) ==
    IF m.exc = "" /\ asked < m.num_questions THEN "read_questions" ELSE "read_others"

\* DNSIncoming.__init__ up to the end of read_header
ReadHeaderAlone ==
    /\ inc = <<>>
    /\ call.op = "read_header"
    /\ LET m == read_header(DNSIncoming_fields(dgram))
       IN  /\ inc' = <<m>>
           /\ call' = [call EXCEPT !.op = reads_next(m, 0), !.failed = m.exc # ""]
    /\ UNCHANGED <<out, frame, ret, dgram, written, reading>>

\* read_questions: one pass of its loop
ReadQuestion ==
    /\ inc # <<>>
    /\ call.op = "read_questions"
    /\ LET m == read_question(read_name(inc[1]))
       IN  /\ inc' = <<m>>
           /\ call' = [call EXCEPT !.op = reads_next(m, call.asked + 1),
                                   !.asked = @ + 1, !.failed = m.exc # ""]
    /\ UNCHANGED <<out, frame, ret, dgram, written, reading>>

ValidInit ==
    /\ out = DNSOutgoing(FLAGS_QR_QUERY, TRUE, 0)
    /\ frame = Idle
    /\ ret = <<>>
    /\ inc = <<>>
    /\ dgram \in CutDatagrams
    /\ written = <<>>
    /\ reading = NotReading
    /\ call = [op |-> "read_header", records |-> <<>>, read |-> 0, asked |-> 0,
               failed |-> FALSE]

ValidNext ==
    \/ ReadHeaderAlone
    \/ ReadQuestion
    \/ ReadOther
    \/ EndOfParse

ValidSpec == ValidInit /\ [][ValidNext]_vars

\* what the claim calls the header fields, questions and records of m
decoded(m) ==
    <<m.id, m.flags, m.num_questions, m.num_answers, m.num_authorities, m.num_additionals,
      m.questions, m.answers>>

\* the sequence s begins with the sequence t
begins_with(s, t) == Len(t) <= Len(s) /\ SubSeq(s, 1, Len(t)) = t

\* C27: valid is true if and only if the header, the num_questions
\* questions and the num_answers + num_authorities + num_additionals
\* records were all read and no read raised; a read that raises leaves the
\* header fields, the questions and the records decoded before it as they
\* were, and valid false.
ValidityFlag ==
    /\ [](call.op = "parsed" =>
             /\ inc[1].valid <=>
                    /\ Len(dgram) >= 12
                    /\ call.asked = inc[1].num_questions
                    /\ call.read = inc[1].num_answers + inc[1].num_authorities
                                       + inc[1].num_additionals
                    /\ inc[1].exc = ""
                    /\ inc[1].warnings = 0
             /\ inc[1] = DNSIncoming(dgram, CreatedAt))
    /\ [](inc # <<>> /\ call.op # "parsed" => ~inc[1].valid)
    /\ [][inc # <<>> /\ inc' # inc =>
             /\ inc'[1].exc # "" \/ call'.op = "parsed" => decoded(inc'[1]) = decoded(inc[1])
             /\ inc'[1].exc # "" => ~inc'[1].valid
             /\ call'.op = "parsed" /\ inc[1].exc # "" => ~inc'[1].valid
             /\ begins_with(inc'[1].questions, inc[1].questions)
             /\ begins_with(inc'[1].answers, inc[1].answers)]_vars
    /\ [][inc = <<>> /\ inc' # inc /\ inc'[1].exc # "" =>
             decoded(inc'[1]) = decoded(DNSIncoming_fields(dgram))]_vars

\* a datagram that ends in the fixed fields of its second record was
\* parsed: the message is not valid and holds the header fields, the two
\* questions and the first record
ValidityFlagWitness ==
    /\ call.op = "parsed"
    /\ ~inc[1].valid
    /\ inc[1].warnings = 1
    /\ inc[1].id = TransactionId
    /\ inc[1].num_answers + inc[1].num_authorities = 2
    /\ Len(inc[1].questions) = 2
    /\ Len(inc[1].answers) = 1
    /\ call.read = 2
====
